---------------------------- MODULE Spec2Model ----------------------------
(***************************************************************************)
(* Score refinement transforms of server/inference.py.                     *)
(*                                                                         *)
(* A score (pretty_midi.PrettyMIDI) is a sequence of instruments; an       *)
(* instrument is a record with its note list and its control changes; a    *)
(* note is a record [pitch, velocity, start, end].  Times are exact, in    *)
(* milliseconds: 0.03 s is 30, 0.125 s is 125.  Arithmetic on times is     *)
(* exact; the rounding error of binary floating point is not modelled.     *)
(***************************************************************************)
EXTENDS Integers, Sequences, FiniteSets

VARIABLES
    pc,      \* position of the caller: "ready" before the call, "done" after
    args,    \* the arguments of the call (a record)
    midi,    \* the score the transform works on (mutated in place)
    orig,    \* the score as it was handed to the transform
    other,   \* the second score of a two-score transform
    ret      \* the value the transform returned

vars == <<pc, args, midi, orig, other, ret>>

\* an optional value: None, or Some(x)
None == <<>>

Some(x) == <<x>>

(***************************************************************************)
(* Bounds of the model.                                                    *)
(***************************************************************************)
MaxNotes == 3

MaxPedalNotes == 3

MaxArrangeNotes == 3

MaxChainNotes == 2

MaxTotalNotes == 2

MaxRefineNotes == 3

MaxStyleNotes == 3

MantissaBits == 4

MaxFloat == 40

MaxBlocks == 7

MaxHumanNotes == 2

(***************************************************************************)
(* Python built-ins used by the transforms.                                *)
(***************************************************************************)
Max(a, b) == IF a >= b THEN a ELSE b

Min(a, b) == IF a <= b THEN a ELSE b

Abs(x) == IF x < 0 THEN -x ELSE x

\* Python's order on tuples of numbers of equal length: k1 < k2.
TupleLess(k1, k2) ==
    \E i \in 1..Len(k1) :
        /\ k1[i] < k2[i]
        /\ \A j \in 1..(i - 1) : k1[j] = k2[j]

\* list.sort(key=...): s sorted by the keys k (k[i] is the key of s[i]),
\* ascending and stable.
SortByKey(s, k) ==
    LET n == Len(s)
        Rank(i) == Cardinality({j \in 1..n :
                        TupleLess(k[j], k[i]) \/ (k[j] = k[i] /\ j < i)}) + 1
    IN  [p \in 1..n |-> s[CHOOSE i \in 1..n : Rank(i) = p]]

\* list.sort(key=..., reverse=True): descending; elements of equal key keep
\* their original relative order.
SortByKeyReverse(s, k) ==
    LET n == Len(s)
        Rank(i) == Cardinality({j \in 1..n :
                        TupleLess(k[i], k[j]) \/ (k[j] = k[i] /\ j < i)}) + 1
    IN  [p \in 1..n |-> s[CHOOSE i \in 1..n : Rank(i) = p]]

Note(p, v, s, e) == [pitch |-> p, velocity |-> v, start |-> s, end |-> e]

Instrument(ns, ccs) == [notes |-> ns, control_changes |-> ccs]

\* the sequences over S of length at most n
SeqUpTo(S, n) == UNION {[1..m -> S] : m \in 0..n}

RECURSIVE Concat(_)
\* the concatenation of a sequence of sequences
Concat(ss) == IF ss = <<>> THEN <<>> ELSE Head(ss) \o Concat(Tail(ss))

Range(s) == {s[i] : i \in 1..Len(s)}

(***************************************************************************)
(* _clean_polyphony                                                        *)
(***************************************************************************)
\* inst.notes.sort(key=lambda n: (n.start, -n.velocity, n.pitch))
SortForMerge(notes) ==
    SortByKey(notes, [i \in 1..Len(notes) |->
        <<notes[i].start, -notes[i].velocity, notes[i].pitch>>])

\* one iteration of the merge loop: n joins the last merged note or is appended
MergeStep(merged, n, onset_window_sec) ==
    IF /\ merged # <<>>
       /\ n.pitch = merged[Len(merged)].pitch
       /\ Abs(n.start - merged[Len(merged)].start) <= onset_window_sec
    THEN [merged EXCEPT ![Len(merged)] =
            [@ EXCEPT !.end = Max(@, n.end),
                      !.velocity = Max(@, n.velocity)]]
    ELSE Append(merged, n)

RECURSIVE MergeLoop(_, _, _, _)
\* for n in inst.notes: ... (from index i on)
MergeLoop(notes, i, merged, onset_window_sec) ==
    IF i > Len(notes) THEN merged
    ELSE MergeLoop(notes, i + 1,
                   MergeStep(merged, notes[i], onset_window_sec),
                   onset_window_sec)

RECURSIVE GroupEnd(_, _, _, _)
\* the inner while: the first index j >= from at which the group opened by
\* merged[i] stops (Len(merged) + 1 when it runs to the end)
GroupEnd(merged, i, from, onset_window_sec) ==
    IF from <= Len(merged)
       /\ merged[from].start - merged[i].start <= onset_window_sec
    THEN GroupEnd(merged, i, from + 1, onset_window_sec)
    ELSE from

RECURSIVE OnsetGroups(_, _, _)
\* the groups the outer while forms, from index i on
OnsetGroups(merged, i, onset_window_sec) ==
    IF i > Len(merged) THEN <<>>
    ELSE LET j == GroupEnd(merged, i, i + 1, onset_window_sec)
         IN  <<SubSeq(merged, i, j - 1)>>
                 \o OnsetGroups(merged, j, onset_window_sec)

\* mutant of RankGroup: the sort without reverse=True
RankGroup_Ascending(group) ==
    SortByKey(group, [i \in 1..Len(group) |->
        <<group[i].velocity, -group[i].pitch>>])

\* mutant of RankGroup: the key is (velocity, pitch)
RankGroup_PitchDescending(group) ==
    SortByKeyReverse(group, [i \in 1..Len(group) |->
        <<group[i].velocity, group[i].pitch>>])

\* group.sort(key=lambda n: (n.velocity, -n.pitch), reverse=True)
RankGroup(group) ==
    SortByKeyReverse(group, [i \in 1..Len(group) |->
        <<group[i].velocity, -group[i].pitch>>])

\* mutant of SortKept: the kept notes stay in rank order
SortKept_RankOrder(kept) == kept

\* kept.sort(key=lambda n: (n.start, n.pitch))
SortKept(kept) ==
    SortByKey(kept, [i \in 1..Len(kept) |-> <<kept[i].start, kept[i].pitch>>])

\* mutant of Keep: the slice is left out
Keep_Uncapped(group, max_notes_per_onset) == group

\* group[:max_notes_per_onset], for max_notes_per_onset >= 0
Keep(group, max_notes_per_onset) ==
    SubSeq(group, 1, Min(max_notes_per_onset, Len(group)))

\* what one group contributes to filtered
CapGroup(group, max_notes_per_onset) ==
    SortKept(Keep(RankGroup(group), max_notes_per_onset))

\* the body of the loop over the instruments
CleanNotes(notes, onset_window_sec, max_notes_per_onset) ==
    LET merged == MergeLoop(SortForMerge(notes), 1, <<>>, onset_window_sec)
        groups == OnsetGroups(merged, 1, onset_window_sec)
    IN  Concat([g \in 1..Len(groups) |->
                    CapGroup(groups[g], max_notes_per_onset)])

_clean_polyphony(m, onset_window_sec, max_notes_per_onset) ==
    [i \in 1..Len(m) |->
        [m[i] EXCEPT !.notes =
            CleanNotes(@, onset_window_sec, max_notes_per_onset)]]

(***************************************************************************)
(* Calls of _clean_polyphony on one instrument.                            *)
(***************************************************************************)
PolyPitches == {60, 62}

PolyVelocities == {40, 90}

PolyWindows == {0, 1}

\* the <<start, end>> pairs of the notes
PolyTimes == {<<0, 1>>, <<0, 3>>, <<1, 2>>, <<2, 3>>}

PolyCaps == {1, 2}

PolyNotes ==
    {Note(p, v, t[1], t[2]) : p \in PolyPitches, v \in PolyVelocities,
                              t \in PolyTimes}

\* the scenario of five near-simultaneous notes
FiveNotes ==
    <<Note(60, 40, 0, 500), Note(62, 90, 2, 500), Note(64, 60, 4, 500),
      Note(65, 110, 6, 500), Note(67, 70, 10, 500)>>

InitPoly ==
    /\ pc = "ready"
    /\ \/ /\ args \in [onset_window_sec : PolyWindows,
                       max_notes_per_onset : PolyCaps]
          /\ \E ns \in SeqUpTo(PolyNotes, MaxNotes) :
                midi = <<Instrument(ns, <<>>)>>
       \/ /\ args = [onset_window_sec |-> 30, max_notes_per_onset |-> 3]
          /\ midi = <<Instrument(FiveNotes, <<>>)>>
    /\ orig = midi
    /\ other = <<>>
    /\ ret = <<>>

CleanPolyphony ==
    /\ pc = "ready"
    /\ midi' = _clean_polyphony(midi, args.onset_window_sec,
                                args.max_notes_per_onset)
    /\ ret' = midi'
    /\ pc' = "done"
    /\ UNCHANGED <<args, orig, other>>

NextPoly == CleanPolyphony

SpecPoly == InitPoly /\ [][NextPoly]_vars

(***************************************************************************)
(* Claims about _clean_polyphony (checked under SpecPoly).                 *)
(***************************************************************************)
PolyIn == orig[1].notes

PolyOut == midi[1].notes

\* the notes of the sequence ns that sound at instant t
Sounding(ns, t) == {i \in 1..Len(ns) : ns[i].start <= t /\ t < ns[i].end}

\* the notes of the sequence ns that start within [a, a + w]
StartingIn(ns, a, w) ==
    {i \in 1..Len(ns) : a <= ns[i].start /\ ns[i].start <= a + w}

\* the instants at which the set of sounding notes can change
Instants(ns) == {ns[i].start : i \in 1..Len(ns)}

\* the onset groups the resolver formed on the call's input
ResolverGroups ==
    OnsetGroups(MergeLoop(SortForMerge(PolyIn), 1, <<>>,
                          args.onset_window_sec), 1, args.onset_window_sec)

\* C1 as stated: after the resolver, at every instant t at most
\* max_notes_per_onset notes of the instrument sound (start <= t < end).
C1_PolyphonyBoundAtEveryInstant ==
    pc = "done" =>
        \A t \in Instants(PolyOut) :
            Cardinality(Sounding(PolyOut, t)) <= args.max_notes_per_onset

\* C1 amended: after the resolver, every onset group the resolver formed
\* (the notes starting within onset_window of the group's first note) has at
\* most max_notes_per_onset notes left, so at most max_notes_per_onset notes
\* start at any one instant; notes of different groups may sound together.
C1_PolyphonyBoundPerOnset ==
    pc = "done" =>
        /\ LET groups == ResolverGroups
           IN  \A g \in 1..Len(groups) :
                  Cardinality(StartingIn(PolyOut, groups[g][1].start,
                                         args.onset_window_sec))
                      <= args.max_notes_per_onset
        /\ \A t \in Instants(PolyOut) :
              Cardinality(StartingIn(PolyOut, t, 0))
                  <= args.max_notes_per_onset

\* C1 witness: the cap acted: more notes of distinct pitch started at one
\* instant than the cap allows, and exactly the cap is left at that instant.
C1_Witness ==
    /\ pc = "done"
    /\ \E t \in Instants(PolyOut) :
          /\ Cardinality({PolyIn[i].pitch : i \in StartingIn(PolyIn, t, 0)})
                > args.max_notes_per_onset
          /\ Cardinality(StartingIn(PolyOut, t, 0)) = args.max_notes_per_onset

\* C2 as stated: after the resolver no two notes of equal pitch start within
\* onset_window of each other.
C2_NoEqualPitchWithinWindow ==
    pc = "done" =>
        \A i, j \in 1..Len(PolyOut) :
            (i < j /\ PolyOut[i].pitch = PolyOut[j].pitch) =>
                Abs(PolyOut[i].start - PolyOut[j].start)
                    > args.onset_window_sec

\* C3 as stated: grouping the resolver's output into onset clusters (opened
\* by the first ungrouped note, taking the following notes that start within
\* onset_window of it) yields no cluster of more than max_notes_per_onset
\* notes; with a cap of 1 no two output notes start within onset_window.
C3_OutputClustersWithinCap ==
    pc = "done" =>
        LET clusters == OnsetGroups(PolyOut, 1, args.onset_window_sec)
        IN  /\ \A c \in 1..Len(clusters) :
                  Len(clusters[c]) <= args.max_notes_per_onset
            /\ args.max_notes_per_onset = 1 =>
                  \A i, j \in 1..Len(PolyOut) :
                      i < j => Abs(PolyOut[i].start - PolyOut[j].start)
                                  > args.onset_window_sec

\* the notes of the sequence ns are pairwise distinct in pitch and in velocity
DistinctPitchAndVelocity(ns) ==
    \A i, j \in 1..Len(ns) :
        i # j => ns[i].pitch # ns[j].pitch /\ ns[i].velocity # ns[j].velocity

\* the sequence ns is in strictly ascending (start, pitch) order
InStartPitchOrder(ns) ==
    \A i \in 1..(Len(ns) - 1) :
        TupleLess(<<ns[i].start, ns[i].pitch>>,
                  <<ns[i + 1].start, ns[i + 1].pitch>>)

\* what is left of the onset group g in the output
LeftOf(g) ==
    SelectSeq(PolyOut, LAMBDA n : /\ g[1].start <= n.start
                                  /\ n.start <= g[1].start
                                                  + args.onset_window_sec)

\* C4: of an onset group with distinct pitches and distinct velocities that
\* holds more than max_notes_per_onset notes, exactly the max_notes_per_onset
\* notes of highest velocity are kept, in (start, pitch) order.
C4_CapKeepsStrongest ==
    pc = "done" =>
        LET groups == ResolverGroups
        IN  \A g \in 1..Len(groups) :
            LET group == groups[g]
                left == LeftOf(group)
            IN  (/\ DistinctPitchAndVelocity(group)
                 /\ Len(group) > args.max_notes_per_onset) =>
                    /\ Len(left) = args.max_notes_per_onset
                    /\ Range(left) \subseteq Range(group)
                    /\ \A k \in Range(left), d \in Range(group) \ Range(left) :
                          k.velocity > d.velocity
                    /\ InStartPitchOrder(left)

\* C4 witness: the scenario of five notes, of which the notes of velocity
\* 110, 90 and 70 are kept in (start, pitch) order.
C4_Witness ==
    /\ pc = "done"
    /\ PolyIn = FiveNotes
    /\ PolyOut = <<Note(62, 90, 2, 500), Note(65, 110, 6, 500),
                   Note(67, 70, 10, 500)>>

(***************************************************************************)
(* _limit_pitch_and_length                                                 *)
(***************************************************************************)
\* mutant of TooShort: a note of exactly min_duration_sec is dropped too
TooShort_Inclusive(n, min_duration_sec) == n.end - n.start <= min_duration_sec

\* if n.end - n.start < min_duration_sec: continue
TooShort(n, min_duration_sec) == n.end - n.start < min_duration_sec

\* int(max(pitch_min, min(pitch_max, n.pitch)))
ClampPitch(pitch, pitch_min, pitch_max) == Max(pitch_min, Min(pitch_max, pitch))

RECURSIVE LimitLoop(_, _, _, _, _, _)
\* for n in inst.notes: ... (from index i on)
LimitLoop(notes, i, kept, pitch_min, pitch_max, min_duration_sec) ==
    IF i > Len(notes) THEN kept
    ELSE LimitLoop(notes, i + 1,
            IF TooShort(notes[i], min_duration_sec) THEN kept
            ELSE Append(kept, [notes[i] EXCEPT
                    !.pitch = ClampPitch(@, pitch_min, pitch_max)]),
            pitch_min, pitch_max, min_duration_sec)

_limit_pitch_and_length(m, pitch_min, pitch_max, min_duration_sec) ==
    [i \in 1..Len(m) |->
        [m[i] EXCEPT !.notes =
            LimitLoop(@, 1, <<>>, pitch_min, pitch_max, min_duration_sec)]]

(***************************************************************************)
(* Calls of _limit_pitch_and_length on one instrument.                     *)
(***************************************************************************)
LimitPitches == {20, 60, 100}

\* the <<start, end>> pairs of the notes: 50, 60 and 70 ms long
LimitTimes == {<<0, 50>>, <<0, 60>>, <<10, 80>>}

LimitNotes ==
    {Note(p, 80, t[1], t[2]) : p \in LimitPitches, t \in LimitTimes}

InitLimit ==
    /\ pc = "ready"
    /\ args \in [pitch_min : {36, 70}, pitch_max : {60, 96},
                 min_duration_sec : {60, 70}]
    /\ \E ns \in SeqUpTo(LimitNotes, MaxNotes) :
          midi = <<Instrument(ns, <<>>)>>
    /\ orig = midi
    /\ other = <<>>
    /\ ret = <<>>

LimitPitchAndLength ==
    /\ pc = "ready"
    /\ midi' = _limit_pitch_and_length(midi, args.pitch_min, args.pitch_max,
                                       args.min_duration_sec)
    /\ ret' = midi'
    /\ pc' = "done"
    /\ UNCHANGED <<args, orig, other>>

NextLimit == LimitPitchAndLength

SpecLimit == InitLimit /\ [][NextLimit]_vars

(***************************************************************************)
(* Claims about _limit_pitch_and_length (checked under SpecLimit).         *)
(***************************************************************************)
\* the input notes that are at least min_duration_sec long, in input order
LongEnough ==
    SelectSeq(orig[1].notes,
              LAMBDA n : n.end - n.start >= args.min_duration_sec)

\* C8: after the Range Limiter the remaining notes are exactly the input
\* notes that were at least min_duration_sec long, in their original order
\* (start, end and velocity untouched, a pitch that was in range untouched),
\* and with pitch_min <= pitch_max every remaining pitch is within
\* [pitch_min, pitch_max].
C8_RangeLimiter ==
    pc = "done" =>
        LET out == midi[1].notes
            in == LongEnough
        IN  /\ Len(out) = Len(in)
            /\ \A k \in 1..Len(out) :
                  /\ out[k].start = in[k].start
                  /\ out[k].end = in[k].end
                  /\ out[k].velocity = in[k].velocity
                  /\ args.pitch_min <= args.pitch_max =>
                        /\ args.pitch_min <= out[k].pitch
                        /\ out[k].pitch <= args.pitch_max
                        /\ (args.pitch_min <= in[k].pitch
                              /\ in[k].pitch <= args.pitch_max)
                                 => out[k].pitch = in[k].pitch

\* C8 witness: a short note was dropped, a note of exactly min_duration_sec
\* was kept, and a kept note had its pitch clamped.
C8_Witness ==
    /\ pc = "done"
    /\ args.pitch_min <= args.pitch_max
    /\ Len(midi[1].notes) < Len(orig[1].notes)
    /\ \E k \in 1..Len(midi[1].notes) :
          /\ midi[1].notes[k].end - midi[1].notes[k].start
                = args.min_duration_sec
          /\ midi[1].notes[k].pitch # LongEnough[k].pitch

(***************************************************************************)
(* _merge_midis_union                                                      *)
(***************************************************************************)
\* _collect: a copy of every note of every instrument, in order
Collect(m) == Concat([i \in 1..Len(m) |-> m[i].notes])

\* notes.sort(key=lambda n: (n.start, n.pitch, -n.velocity))
SortForUnion(notes) ==
    SortByKey(notes, [i \in 1..Len(notes) |->
        <<notes[i].start, notes[i].pitch, -notes[i].velocity>>])

\* mutant of DedupStep: every note is appended
DedupStep_AppendAll(merged, n, dedup_window_sec) == Append(merged, n)

\* mutant of DedupStep: of two near-identical notes the first one met stays
DedupStep_KeepFirst(merged, n, dedup_window_sec) ==
    IF /\ merged # <<>>
       /\ n.pitch = merged[Len(merged)].pitch
       /\ Abs(n.start - merged[Len(merged)].start) <= dedup_window_sec
    THEN merged
    ELSE Append(merged, n)

\* one iteration of the dedup loop
DedupStep(merged, n, dedup_window_sec) ==
    IF /\ merged # <<>>
       /\ n.pitch = merged[Len(merged)].pitch
       /\ Abs(n.start - merged[Len(merged)].start) <= dedup_window_sec
    THEN IF \/ (n.end - n.start)
                  > (merged[Len(merged)].end - merged[Len(merged)].start)
            \/ n.velocity > merged[Len(merged)].velocity
         THEN [merged EXCEPT ![Len(merged)] = n]
         ELSE merged
    ELSE Append(merged, n)

RECURSIVE DedupLoop(_, _, _, _)
\* for n in notes: ... (from index i on)
DedupLoop(notes, i, merged, dedup_window_sec) ==
    IF i > Len(notes) THEN merged
    ELSE DedupLoop(notes, i + 1,
                   DedupStep(merged, notes[i], dedup_window_sec),
                   dedup_window_sec)

\* onset_window_sec is a parameter the function never reads
_merge_midis_union(a, b, onset_window_sec, dedup_window_sec) ==
    <<Instrument(DedupLoop(SortForUnion(Collect(a) \o Collect(b)), 1, <<>>,
                           dedup_window_sec),
                 <<>>)>>

(***************************************************************************)
(* Calls of _merge_midis_union on two scores.                              *)
(***************************************************************************)
\* the <<start, end>> pairs of the notes
MergeTimes == {<<0, 40>>, <<0, 60>>, <<30, 70>>}

MergeNotes ==
    {Note(p, v, t[1], t[2]) : p \in {60, 62}, v \in {40, 90},
                              t \in MergeTimes}

\* the scores that hold the notes ns: no instrument (for no note), one
\* instrument, or two instruments with the first note in the first
ScoresOf(ns) ==
    {<<Instrument(ns, <<>>)>>}
        \cup (IF ns = <<>> THEN {<<>>} ELSE {})
        \cup (IF Len(ns) >= 2
              THEN {<<Instrument(<<ns[1]>>, <<>>), Instrument(Tail(ns), <<>>)>>}
              ELSE {})

InitMerge ==
    /\ pc = "ready"
    /\ args \in [onset_window_sec : {30}, dedup_window_sec : {20, 30}]
    /\ \E na \in SeqUpTo(MergeNotes, MaxNotes) :
          \E nb \in SeqUpTo(MergeNotes, MaxNotes - Len(na)) :
              /\ midi \in ScoresOf(na)
              /\ other = <<Instrument(nb, <<>>)>>
    /\ orig = midi
    /\ ret = <<>>

MergeMidisUnion ==
    /\ pc = "ready"
    /\ ret' = _merge_midis_union(midi, other, args.onset_window_sec,
                                 args.dedup_window_sec)
    /\ pc' = "done"
    /\ UNCHANGED <<args, midi, orig, other>>

NextMerge == MergeMidisUnion

SpecMerge == InitMerge /\ [][NextMerge]_vars

(***************************************************************************)
(* Claims about _merge_midis_union (checked under SpecMerge).              *)
(***************************************************************************)
\* all the notes handed to the merger
MergeIn == Collect(midi) \o Collect(other)

\* how many times the note x occurs in the sequence ns
Occurrences(ns, x) == Cardinality({i \in 1..Len(ns) : ns[i] = x})

\* a note other than x, of x's pitch, starts within dedup_window_sec of x
HasNearDuplicate(ns, x) ==
    \E i \in 1..Len(ns) :
        /\ ns[i] # x
        /\ ns[i].pitch = x.pitch
        /\ Abs(ns[i].start - x.start) <= args.dedup_window_sec

\* C9 as stated: the merger returns one instrument with at most as many
\* notes as A and B hold together, and every group of exact duplicates
\* across A and B appears as exactly one note in the result.
C9_DuplicatesAppearExactlyOnce ==
    pc = "done" =>
        /\ Len(ret) = 1
        /\ Len(ret[1].notes) <= Len(MergeIn)
        /\ \A x \in Range(MergeIn) :
              Occurrences(MergeIn, x) >= 2 =>
                  Occurrences(ret[1].notes, x) = 1

\* C9 amended: the merger returns one instrument with at most as many notes
\* as A and B hold together, and every group of exact duplicates across A
\* and B appears as at most one note in the result: as exactly one when no
\* other note of the same pitch starts within dedup_window of it.
C9_DuplicatesAppearAtMostOnce ==
    pc = "done" =>
        /\ Len(ret) = 1
        /\ Len(ret[1].notes) <= Len(MergeIn)
        /\ \A x \in Range(MergeIn) :
              Occurrences(MergeIn, x) >= 2 =>
                  /\ Occurrences(ret[1].notes, x) <= 1
                  /\ ~HasNearDuplicate(MergeIn, x) =>
                        Occurrences(ret[1].notes, x) = 1

\* C9 witness: a note of A has an exact duplicate in B and the result holds
\* it once, beside another note.
C9_Witness ==
    /\ pc = "done"
    /\ \E x \in Range(Collect(midi)) \cap Range(Collect(other)) :
          /\ Occurrences(ret[1].notes, x) = 1
          /\ Len(ret[1].notes) = 2
          /\ Len(MergeIn) = 3

(***************************************************************************)
(* _classify_chord                                                         *)
(***************************************************************************)
\* list(sorted(S)) for a set S of numbers
SortedList(S) ==
    [p \in 1..Cardinality(S) |->
        CHOOSE x \in S : Cardinality({y \in S : y < x}) = p - 1]

\* major = {(r) % 12, (r + 4) % 12, (r + 7) % 12}
MajorTriad(r) == {r % 12, (r + 4) % 12, (r + 7) % 12}

\* minor = {(r) % 12, (r + 3) % 12, (r + 7) % 12}
MinorTriad(r) == {r % 12, (r + 3) % 12, (r + 7) % 12}

\* mutant of Better: a template as good as the best so far replaces it
Better_OrEqual(score, best_score) == score >= best_score

\* if score > best_score
Better(score, best_score) == score > best_score

\* one iteration of the loop over the roots; st is [best, best_score]
RootStep(st, r, pcs) ==
    LET score_major == Cardinality(MajorTriad(r) \cap pcs)
        score_minor == Cardinality(MinorTriad(r) \cap pcs)
        st1 == IF Better(score_major, st.best_score)
               THEN [best |-> <<r, SortedList(MajorTriad(r))>>,
                     best_score |-> score_major]
               ELSE st
    IN  IF Better(score_minor, st1.best_score)
        THEN [best |-> <<r, SortedList(MinorTriad(r))>>,
              best_score |-> score_minor]
        ELSE st1

RECURSIVE RootLoop(_, _, _)
\* for r in range(12): ... (from root r on).  A score counts pitch classes
\* of a triad, so best_score <= 3 always holds; reading it in the guard makes
\* TLC evaluate each pass before it enters the next one.
RootLoop(st, r, pcs) ==
    IF r < 12 /\ st.best_score <= 3
    THEN RootLoop(RootStep(st, r, pcs), r + 1, pcs)
    ELSE st

_classify_chord(pitch_classes) ==
    IF pitch_classes = <<>> THEN None
    ELSE RootLoop([best |-> None, best_score |-> -1], 0,
                  {pitch_classes[i] % 12 : i \in 1..Len(pitch_classes)}).best

(***************************************************************************)
(* Calls of _classify_chord on every set of pitch classes, given as the    *)
(* pitch classes themselves or an octave higher.                           *)
(***************************************************************************)
InitChord ==
    /\ pc = "ready"
    /\ \E S \in SUBSET (0..11), octave \in {0, 12} :
          args = [pitch_classes |-> SortedList({p + octave : p \in S})]
    /\ midi = <<>>
    /\ orig = <<>>
    /\ other = <<>>
    /\ ret = <<>>

ClassifyChord ==
    /\ pc = "ready"
    /\ ret' = _classify_chord(args.pitch_classes)
    /\ pc' = "done"
    /\ UNCHANGED <<args, midi, orig, other>>

NextChord == ClassifyChord

SpecChord == InitChord /\ [][NextChord]_vars

(***************************************************************************)
(* Claims about _classify_chord (checked under SpecChord).                 *)
(***************************************************************************)
\* the 24 templates in scan order: <<root, "major">> is number 2 * root,
\* <<root, "minor">> number 2 * root + 1
Template(k) == IF k % 2 = 0 THEN MajorTriad(k \div 2) ELSE MinorTriad(k \div 2)

\* the pitch classes of the call's argument
ChordInput == {args.pitch_classes[i] % 12 : i \in 1..Len(args.pitch_classes)}

RoundHalfUp(num, den) == (2 * num + den) \div (2 * den)

\* round(num / den) for den > 0: Python rounds a tie to the even integer
RoundHalfEven(num, den) ==
    LET q == num \div den
        r == num % den
    IN  IF 2 * r < den THEN q
        ELSE IF 2 * r > den THEN q + 1
        ELSE IF q % 2 = 0 THEN q ELSE q + 1

\* mutant of _quantize_time: the grid index is returned, not the time
_quantize_time_index(value_sec, grid_sec) ==
    IF grid_sec <= 0 THEN value_sec ELSE RoundHalfEven(value_sec, grid_sec)

\* mutant of _quantize_time: round(value_sec / grid_sec + 0.5) * grid_sec
_quantize_time_up(value_sec, grid_sec) ==
    IF grid_sec <= 0 THEN value_sec
    ELSE RoundHalfEven(2 * value_sec + grid_sec, 2 * grid_sec) * grid_sec

_quantize_time(value_sec, grid_sec) ==
    IF grid_sec <= 0 THEN value_sec
    ELSE RoundHalfEven(value_sec, grid_sec) * grid_sec

\* if bpm is None: bpm = 120.0
BpmOrDefault(bpm) == IF bpm = None THEN 120 ELSE bpm[1]

\* grid_sec = (60.0 / bpm) / 4.0 if sixteenth_quantize else 0.0, in ms; exact
\* for the tempos of the model, which divide 15000
GridSec(bpm, sixteenth_quantize) ==
    IF sixteenth_quantize THEN (60000 \div BpmOrDefault(bpm)) \div 4 ELSE 0

\* the body of the loop over the notes: pitch clamp, quantization, minimum
\* duration; a is the record of the call's arguments
QuantizeNote(note, a) ==
    LET grid_sec == GridSec(a.bpm, a.sixteenth_quantize)
        p1 == IF note.pitch < a.pitch_min THEN a.pitch_min ELSE note.pitch
        p2 == IF p1 > a.pitch_max THEN a.pitch_max ELSE p1
        quantize == a.sixteenth_quantize /\ grid_sec > 0
        s1 == IF quantize THEN _quantize_time(note.start, grid_sec)
              ELSE note.start
        e1 == IF quantize THEN _quantize_time(note.end, grid_sec)
              ELSE note.end
        e2 == IF quantize /\ e1 <= s1 THEN s1 + grid_sec ELSE e1
        e3 == IF e2 - s1 < a.min_duration_sec THEN s1 + a.min_duration_sec
              ELSE e2
    IN  [note EXCEPT !.pitch = p2, !.start = s1, !.end = e3]

\* np.convolve(velocities, [1, 2, 1] / 4, mode="same")[i], rounded and
\* clamped: int(max(1, min(127, round(v))))
SmoothedVelocity(notes, i) ==
    LET left == IF i > 1 THEN notes[i - 1].velocity ELSE 0
        right == IF i < Len(notes) THEN notes[i + 1].velocity ELSE 0
    IN  Max(1, Min(127, RoundHalfEven(left + 2 * notes[i].velocity + right, 4)))

\* if smooth_velocity and instrument.notes: ... if velocities.size >= 3: ...
SmoothNotes(notes, a) ==
    IF a.smooth_velocity /\ Len(notes) >= 3
    THEN [i \in 1..Len(notes) |->
            [notes[i] EXCEPT !.velocity = SmoothedVelocity(notes, i)]]
    ELSE notes

\* mutant of HumanizeNote: the jittered values are not clamped
HumanizeNote_Unclamped(n, a, draw) ==
    [n EXCEPT !.start = n.start + draw.jitter, !.end = n.end + draw.jitter,
              !.velocity = n.velocity + draw.dv]

\* the body of the humanization loop; draw is [jitter, dv], what
\* np.random.uniform and np.random.randint returned for the note
HumanizeNote(n, a, draw) ==
    LET s1 == IF a.humanize_timing_sec > 0
              THEN Max(0, n.start + draw.jitter) ELSE n.start
        e1 == IF a.humanize_timing_sec > 0
              THEN Max(s1 + 10, n.end + draw.jitter) ELSE n.end
        v1 == IF a.humanize_velocity_range > 0
              THEN Max(1, Min(127, n.velocity + draw.dv)) ELSE n.velocity
    IN  [n EXCEPT !.start = s1, !.end = e1, !.velocity = v1]

\* if (humanize_timing_sec > 0 or humanize_velocity_range > 0) and notes: ...
HumanizeNotes(notes, a, draws) ==
    IF a.humanize_timing_sec > 0 \/ a.humanize_velocity_range > 0
    THEN [i \in 1..Len(notes) |-> HumanizeNote(notes[i], a, draws[i])]
    ELSE notes

\* pretty_midi.ControlChange(number=64, value=..., time=...)
ControlChange(value, time) == [number |-> 64, value |-> value, time |-> time]

\* gap_threshold = 0.12
gap_threshold == 120

\* mutant of PedalStep: every note gets a pedal-up / pedal-down pair
PedalStep_EveryNote(st, note) ==
    [cc |-> st.cc \o <<ControlChange(0, Max(0, note.start - 20)),
                       ControlChange(127, note.start)>>,
     pedal_on |-> TRUE,
     last_end |-> Some(note.end)]

\* mutant of PedalStep: last_end follows the note just scanned
PedalStep_LastNoteEnd(st, note) ==
    LET gap == st.last_end = None
                  \/ (note.start - st.last_end[1]) > gap_threshold
    IN  [cc |-> IF gap
                THEN st.cc \o <<ControlChange(0, Max(0, note.start - 20)),
                                ControlChange(127, note.start)>>
                ELSE st.cc,
         pedal_on |-> st.pedal_on \/ gap,
         last_end |-> Some(note.end)]

\* one iteration of the pedal loop; st is [cc, pedal_on, last_end]
PedalStep(st, note) ==
    LET gap == st.last_end = None
                  \/ (note.start - st.last_end[1]) > gap_threshold
        t_up == Max(0, note.start - 20)
    IN  [cc |-> IF gap
                THEN st.cc \o <<ControlChange(0, t_up),
                                ControlChange(127, note.start)>>
                ELSE st.cc,
         pedal_on |-> st.pedal_on \/ gap,
         last_end |-> Some(Max(IF st.last_end = None THEN 0
                                    ELSE st.last_end[1],
                                    note.end))]

RECURSIVE PedalLoop(_, _, _)
\* for i, note in enumerate(instrument.notes): ... (from index i on).
\* pedal_on is a Boolean in every pass; reading it in the guard makes TLC
\* evaluate each pass before it enters the next one.
PedalLoop(notes, i, st) ==
    IF i <= Len(notes) /\ st.pedal_on \in BOOLEAN
    THEN PedalLoop(notes, i + 1, PedalStep(st, notes[i]))
    ELSE st

\* the control changes the pedal pass adds for the notes, sorted by start
PedalEvents(notes) ==
    LET st == PedalLoop(notes, 1,
                        [cc |-> <<>>, pedal_on |-> FALSE, last_end |-> None])
    IN  IF st.pedal_on THEN Append(st.cc, ControlChange(0, st.last_end[1]))
        ELSE st.cc

\* instrument.notes.sort(key=lambda x: x.start)
SortByStart(notes) ==
    SortByKey(notes, [i \in 1..Len(notes) |-> <<notes[i].start>>])

\* the body of the loop over the instruments; draws[i] is the random draw
\* for note i
PostProcessInstrument(inst, a, draws) ==
    LET quantized == [i \in 1..Len(inst.notes) |->
                         QuantizeNote(inst.notes[i], a)]
        humanized == HumanizeNotes(SmoothNotes(quantized, a), a, draws)
    IN  IF a.add_sustain /\ humanized # <<>>
        THEN [notes |-> SortByStart(humanized),
              control_changes |-> inst.control_changes
                                    \o PedalEvents(SortByStart(humanized))]
        ELSE [inst EXCEPT !.notes = humanized]

\* draws[<<k, i>>] is the random draw for note i of instrument k; the
\* assignment instrument.program = 0 is left out with the field
_post_process_midi(m, a, draws) ==
    [k \in 1..Len(m) |->
        PostProcessInstrument(m[k], a,
            [i \in 1..Len(m[k].notes) |-> draws[<<k, i>>]])]

\* np.random.uniform(-humanize_timing_sec, humanize_timing_sec): the ends of
\* the half-open range and its middle
TimingDraws(a) ==
    IF a.humanize_timing_sec > 0
    THEN {-a.humanize_timing_sec, 0, a.humanize_timing_sec - 1}
    ELSE {0}

\* np.random.randint(-humanize_velocity_range, humanize_velocity_range + 1):
\* the ends of the range and its middle
VelocityDraws(a) ==
    IF a.humanize_velocity_range > 0
    THEN {-a.humanize_velocity_range, 0, a.humanize_velocity_range}
    ELSE {0}

\* the random draws one call can see on the score m, one per note
Draws(m, a) ==
    [{<<k, i>> : k \in 1..Len(m), i \in 1..MaxNotes} \cap
        {ki \in (1..Len(m)) \X (1..MaxNotes) : ki[2] <= Len(m[ki[1]].notes)}
     -> [jitter : TimingDraws(a), dv : VelocityDraws(a)]]

\* a first call of _post_process_midi on the score
PostProcessMidi ==
    /\ pc = "ready"
    /\ \E draws \in Draws(midi, args) :
          midi' = _post_process_midi(midi, args, draws)
    /\ ret' = midi'
    /\ pc' = "done"
    /\ UNCHANGED <<args, orig, other>>

\* a second call with the same arguments on the score the first returned;
\* other remembers the score between the two calls
PostProcessMidiAgain ==
    /\ pc = "done"
    /\ \E draws \in Draws(midi, args) :
          midi' = _post_process_midi(midi, args, draws)
    /\ ret' = midi'
    /\ other' = midi
    /\ pc' = "twice"
    /\ UNCHANGED <<args, orig>>

(***************************************************************************)
(* Calls of _post_process_midi without humanization, twice in a row.       *)
(***************************************************************************)
QuantNotes ==
    {Note(10, 80, 0, 14), Note(60, 80, 15, 45), Note(120, 80, 40, 50),
     Note(60, 60, 103, 245), Note(60, 80, 30, 60), Note(60, 100, 250, 260)}

InitQuant ==
    /\ pc = "ready"
    /\ args \in [bpm : {None, Some(500)}, min_duration_sec : {50, 70},
                 sixteenth_quantize : BOOLEAN, pitch_min : {21},
                 pitch_max : {108}, smooth_velocity : {TRUE},
                 humanize_timing_sec : {0}, humanize_velocity_range : {0},
                 add_sustain : BOOLEAN]
    /\ \E ns \in SeqUpTo(QuantNotes, MaxNotes) :
          midi = <<Instrument(ns, <<>>)>>
    /\ orig = midi
    /\ other = <<>>
    /\ ret = <<>>

NextQuant == PostProcessMidi \/ PostProcessMidiAgain

SpecQuant == InitQuant /\ [][NextQuant]_vars

(***************************************************************************)
(* Calls of _post_process_midi with humanization.                          *)
(***************************************************************************)
HumanNotes ==
    {Note(60, 1, 0, 14), Note(60, 127, 5, 100), Note(60, 64, 200, 260)}

InitHuman ==
    /\ pc = "ready"
    /\ args \in [bpm : {None}, min_duration_sec : {50},
                 sixteenth_quantize : BOOLEAN, pitch_min : {21},
                 pitch_max : {108}, smooth_velocity : {TRUE},
                 humanize_timing_sec : {0, 12},
                 humanize_velocity_range : {0, 2},
                 add_sustain : BOOLEAN]
    /\ \E ns \in SeqUpTo(HumanNotes, MaxHumanNotes) :
          midi = <<Instrument(ns, <<>>)>>
    /\ orig = midi
    /\ other = <<>>
    /\ ret = <<>>

NextHuman == PostProcessMidi

SpecHuman == InitHuman /\ [][NextHuman]_vars

(***************************************************************************)
(* Claims about _post_process_midi (checked under SpecQuant, SpecHuman).   *)
(***************************************************************************)
\* the grid of the call
CallGrid == GridSec(args.bpm, args.sixteenth_quantize)

\* the two scores have the same notes as to start, end and pitch
SameTimesAndPitches(m1, m2) ==
    /\ Len(m1) = Len(m2)
    /\ \A k \in 1..Len(m1) :
          /\ Len(m1[k].notes) = Len(m2[k].notes)
          /\ \A i \in 1..Len(m1[k].notes) :
                /\ m1[k].notes[i].start = m2[k].notes[i].start
                /\ m1[k].notes[i].end = m2[k].notes[i].end
                /\ m1[k].notes[i].pitch = m2[k].notes[i].pitch

MinDurationNotRoundedUp ==
    \/ CallGrid <= 0
    \/ args.min_duration_sec <= CallGrid
    \/ 2 * (args.min_duration_sec % CallGrid) < CallGrid

C7_DurationFloor ==
    pc = "done" =>
        \A k \in 1..Len(midi) : \A i \in 1..Len(midi[k].notes) :
            /\ midi[k].notes[i].end - midi[k].notes[i].start
                  >= args.min_duration_sec
            /\ midi[k].notes[i].end > midi[k].notes[i].start

\* the multiple of grid nearest to x; of two equally near multiples the even
\* one
NearestMultiple(x, grid) ==
    LET ks == 0..((x \div grid) + 1)
        k == CHOOSE m \in ks :
                 \A j \in ks \ {m} :
                     \/ Abs(m * grid - x) < Abs(j * grid - x)
                     \/ (Abs(m * grid - x) = Abs(j * grid - x) /\ m % 2 = 0)
    IN  k * grid

\* the times the Quantizer and the minimum-duration step give a note
QuantizedTimes(n) ==
    LET s == NearestMultiple(n.start, CallGrid)
        e == NearestMultiple(n.end, CallGrid)
        e2 == IF e <= s THEN s + CallGrid ELSE e
    IN  [start |-> s, end |-> Max(e2, s + args.min_duration_sec)]

\* C11: the Quantizer sets each note's start and end to the multiple of the
\* grid nearest to the original value, a value halfway between two multiples
\* going to the even one, and an end that is rounded to the start or before
\* it becomes start + grid (the minimum-duration step then stretches a note
\* shorter than min_duration_sec); the note 103-245 ms at bpm 120 becomes
\* 125-250 ms.
C11_QuantizerRounding ==
    (pc = "done" /\ args.sixteenth_quantize /\ CallGrid > 0) =>
        LET in == orig[1].notes
            expected == [i \in 1..Len(in) |-> QuantizedTimes(in[i])]
            out == [i \in 1..Len(midi[1].notes) |->
                       [start |-> midi[1].notes[i].start,
                        end |-> midi[1].notes[i].end]]
        IN  /\ out = IF args.add_sustain THEN SortByStart(expected)
                     ELSE expected
            /\ (CallGrid = 125 /\ ~args.add_sustain) =>
                  \A i \in 1..Len(in) :
                      (in[i].start = 103 /\ in[i].end = 245) =>
                          (out[i].start = 125 /\ out[i].end = 250)

\* C11 witness: at a grid of 30 ms a note 15-45 ms, both times halfway
\* between two multiples, became 0-60 ms (multiples 0 and 2 of the grid).
C11_Witness ==
    /\ pc = "done"
    /\ CallGrid = 30
    /\ ~args.add_sustain
    /\ args.min_duration_sec = 50
    /\ \E i \in 1..Len(midi[1].notes) :
          /\ orig[1].notes[i].start = 15
          /\ orig[1].notes[i].end = 45
          /\ midi[1].notes[i].start = 0
          /\ midi[1].notes[i].end = 60

(***************************************************************************)
(* expressive_enhance_midi                                                 *)
(***************************************************************************)
\* pm.get_end_time(): the latest note end or control change time of the
\* score, 0 without events
get_end_time(m) ==
    LET ends == UNION {{m[k].notes[i].end : i \in 1..Len(m[k].notes)}
                         \cup {m[k].control_changes[i].time :
                                  i \in 1..Len(m[k].control_changes)} :
                          k \in 1..Len(m)}
    IN  IF ends = {} THEN 0 ELSE CHOOSE e \in ends : \A f \in ends : f <= e

\* the index of the last beat of pm.get_beats(): without tempo changes the
\* beats lie every 500 ms (120 bpm) from 0 up to the end time; whether a
\* beat that falls on the end time itself is returned is left open
LastBeats(m) ==
    {get_end_time(m) \div 500, (Max(get_end_time(m), 1) - 1) \div 500}

\* max(0, bisect.bisect_right(beats, t) - 1)
BeatIndex(t, last_beat) == Max(0, Min(t \div 500, last_beat))

_accent_for_beat_index(beat_idx, time_signature_numerator) ==
    IF time_signature_numerator = 3
    THEN <<14, 4, 6>>[(beat_idx % 3) + 1]
    ELSE <<16, 4, 10, 4>>[(beat_idx % 4) + 1]

\* the body of the velocity loop for note i (from 1) of the sorted notes; dv
\* is what np.random.randint returned; sums are taken in tenths
ShapeVelocity(notes, i, a, last_beat, dv) ==
    LET n == notes[i]
        j == BeatIndex(n.start, last_beat)
        accent == _accent_for_beat_index(j, 4)
        pitch_comp == RoundHalfEven(-12 * (n.pitch - 60), 100)
        phrase_boost ==
            IF i - 1 < 3 \/ (i > 1 /\ n.start - notes[i - 1].start > 500)
            THEN 8 ELSE 0
        base_velocity ==
            IF n.velocity < 60 THEN (14 * n.velocity) \div 10
            ELSE IF n.velocity > 100 THEN (115 * n.velocity) \div 100
            ELSE n.velocity
        tenths == 10 * base_velocity + 13 * accent + 10 * pitch_comp
                     + 10 * phrase_boost
        final_velocity == Max(1, Min(127, tenths \div 10))
    IN  IF a.humanize_velocity_range > 0
        THEN Max(1, Min(127, final_velocity + dv))
        ELSE final_velocity

\* jitter_range for a note on beat beat_pos, in ms
JitterRange(beat_pos, humanize_timing_sec) ==
    IF beat_pos % 4 = 0 THEN (3 * humanize_timing_sec) \div 10
    ELSE IF beat_pos % 2 = 0 THEN (6 * humanize_timing_sec) \div 10
    ELSE humanize_timing_sec

\* the body of the timing loop for note i: jitter, then legato towards the
\* next note, whose start is not yet moved; jitter is what np.random.uniform
\* returned
ShapeTiming(notes, i, a, jitter) ==
    LET n == notes[i]
        s1 == IF a.humanize_timing_sec > 0 THEN Max(0, n.start + jitter)
              ELSE n.start
        e1 == IF a.humanize_timing_sec > 0 THEN Max(s1 + 20, n.end + jitter)
              ELSE n.end
        gap == notes[i + 1].start - e1
        overlap == IF gap < 30 THEN 8 ELSE 15
        e2 == IF i + 1 <= Len(notes) /\ 0 < gap /\ gap < 80
              THEN Min(notes[i + 1].start - 2, e1 + (80 - gap + overlap))
              ELSE e1
    IN  [n EXCEPT !.start = s1, !.end = e2]

\* inst.notes.sort(key=lambda n: (n.start, n.pitch))
SortByStartPitch(notes) ==
    SortByKey(notes,
              [i \in 1..Len(notes) |-> <<notes[i].start, notes[i].pitch>>])

\* gap_threshold = 0.15 of expressive_enhance_midi
gap_threshold_expressive == 150

\* one iteration of the pedal loop; st is [cc, last_end]
ExpressivePedalStep(st, n) ==
    LET gap == st.last_end = None
                  \/ (n.start - st.last_end[1]) > gap_threshold_expressive
        t_up == Max(0, n.start - 30)
        t_down == Max(0, n.start + 10)
    IN  [cc |-> IF gap
                THEN st.cc \o <<ControlChange(0, t_up),
                                ControlChange(127, t_down)>>
                ELSE st.cc,
         last_end |-> Some(Max(IF st.last_end = None THEN 0
                                    ELSE st.last_end[1],
                                    n.end))]

RECURSIVE ExpressivePedalLoop(_, _, _)
\* for n in inst.notes: ... (from index i on)
ExpressivePedalLoop(notes, i, st) ==
    IF i > Len(notes) THEN st
    ELSE ExpressivePedalLoop(notes, i + 1, ExpressivePedalStep(st, notes[i]))

\* the control changes the pedal pass adds for the notes, sorted by start;
\* "if last_end:" is false for None and for 0.0
ExpressivePedalEvents(notes) ==
    LET st == ExpressivePedalLoop(notes, 1, [cc |-> <<>>, last_end |-> None])
    IN  IF st.last_end # None /\ st.last_end[1] # 0
        THEN Append(st.cc, ControlChange(0, st.last_end[1]))
        ELSE st.cc

\* np.random.uniform(-jitter_range, jitter_range): the ends of the half-open
\* range and its middle, chosen by where = -1, 1, 0
JitterDraw(jitter_range, where) ==
    IF where = -1 THEN -jitter_range
    ELSE IF where = 1 THEN Max(0, jitter_range - 1)
    ELSE 0

\* the body of the loop over the instruments; draws[i] is [jitter, dv] for
\* note i of the sorted list, jitter saying where in the note's jitter range
\* the draw fell
EnhanceInstrument(inst, a, last_beat, draws) ==
    LET sorted == SortByStartPitch(inst.notes)
        shaped == [i \in 1..Len(sorted) |->
                      [sorted[i] EXCEPT !.velocity =
                          ShapeVelocity(sorted, i, a, last_beat, draws[i].dv)]]
        JitterOf(i) ==
            JitterDraw(JitterRange(BeatIndex(shaped[i].start, last_beat),
                                   a.humanize_timing_sec),
                       draws[i].jitter)
        timed == [i \in 1..Len(shaped) |->
                     ShapeTiming(shaped, i, a, JitterOf(i))]
    IN  IF a.sustain /\ timed # <<>>
        THEN [notes |-> SortByStart(timed),
              control_changes |-> inst.control_changes
                                    \o ExpressivePedalEvents(SortByStart(timed))]
        ELSE [inst EXCEPT !.notes = timed]

\* the score has no time signature change (num = 4)
expressive_enhance_midi(m, a, last_beat, draws) ==
    [k \in 1..Len(m) |->
        EnhanceInstrument(m[k], a, last_beat,
            [i \in 1..Len(m[k].notes) |-> draws[<<k, i>>]])]

\* the random draws one call of expressive_enhance_midi can see, one per note
ExpressiveDraws(m, a) ==
    [{ki \in (1..Len(m)) \X (1..MaxPedalNotes) : ki[2] <= Len(m[ki[1]].notes)}
     -> [jitter : IF a.humanize_timing_sec > 0 THEN {-1, 0, 1} ELSE {0},
         dv : VelocityDraws(a)]]

\* a call of expressive_enhance_midi on the score
ExpressiveEnhanceMidi ==
    /\ pc = "enhance"
    /\ \E last_beat \in LastBeats(midi) :
       \E draws \in ExpressiveDraws(midi, args) :
          midi' = expressive_enhance_midi(midi, args, last_beat, draws)
    /\ ret' = midi'
    /\ pc' = "enhanced"
    /\ UNCHANGED <<args, orig, other>>

(***************************************************************************)
(* Calls of the two pedal passes: _post_process_midi with add_sustain and  *)
(* expressive_enhance_midi with sustain.                                   *)
(***************************************************************************)
PedalNotes ==
    {Note(60, 100, 0, 500), Note(64, 50, 520, 1000), Note(67, 80, 2000, 2500),
     Note(62, 110, 1100, 1160), Note(60, 80, 1121, 2000),
     Note(65, 70, 125, 375)}

InitPedal ==
    /\ \/ /\ pc = "ready"
          /\ args \in [bpm : {None}, min_duration_sec : {50},
                       sixteenth_quantize : BOOLEAN, pitch_min : {21},
                       pitch_max : {108}, smooth_velocity : {TRUE},
                       humanize_timing_sec : {0, 12},
                       humanize_velocity_range : {0},
                       add_sustain : {TRUE}]
       \/ /\ pc = "enhance"
          /\ args \in {[humanize_timing_sec |-> 0,
                        humanize_velocity_range |-> 0, sustain |-> TRUE],
                       [humanize_timing_sec |-> 10,
                        humanize_velocity_range |-> 0, sustain |-> TRUE],
                       [humanize_timing_sec |-> 0,
                        humanize_velocity_range |-> 2, sustain |-> TRUE],
                       [humanize_timing_sec |-> 0,
                        humanize_velocity_range |-> 0, sustain |-> FALSE]}
    /\ \E ns \in SeqUpTo(PedalNotes, MaxPedalNotes) :
          midi = <<Instrument(ns, <<>>)>>
    /\ orig = midi
    /\ other = <<>>
    /\ ret = <<>>

NextPedal == PostProcessMidi \/ ExpressiveEnhanceMidi

SpecPedal == InitPedal /\ [][NextPedal]_vars

(***************************************************************************)
(* Claims about the pedal passes (checked under SpecPedal).                *)
(***************************************************************************)
\* the pedal pass has run: which function, with its sustain flag on
PedalPassDone ==
    \/ pc = "done" /\ args.add_sustain
    \/ pc = "enhanced" /\ args.sustain

\* the gap threshold of the function that ran
PedalThreshold ==
    IF pc = "done" THEN gap_threshold ELSE gap_threshold_expressive

\* last_end as tracked before note i: the latest end of the earlier notes
TrackedLastEnd(ns, i) ==
    LET ends == {ns[j].end : j \in 1..(i - 1)} \cup {0}
    IN  CHOOSE e \in ends : \A f \in ends : f <= e

\* the notes that get a pedal-up / pedal-down pair, in scan order
GapNotes(ns) ==
    SelectSeq([i \in 1..Len(ns) |-> i],
              LAMBDA i : i = 1
                  \/ ns[i].start - TrackedLastEnd(ns, i) > PedalThreshold)

\* the control changes are one up/down pair per gap note, the down event
\* delay after the note's start, and at most one closing pedal-up
PedalPairsAt(cc, ns, delay) ==
    LET g == GapNotes(ns)
    IN  /\ \A i \in 1..(Len(ns) - 1) : ns[i].start <= ns[i + 1].start
        /\ Len(cc) \in {2 * Len(g), 2 * Len(g) + 1}
        /\ Len(cc) = 2 * Len(g) + 1 => cc[Len(cc)].value = 0
        /\ \A k \in 1..Len(g) :
              /\ cc[2 * k - 1].number = 64
              /\ cc[2 * k - 1].value = 0
              /\ cc[2 * k - 1].time <= ns[g[k]].start
              /\ cc[2 * k] = ControlChange(127, ns[g[k]].start + delay)

\* C12 as stated: scanning the notes in start order, a pedal-up followed by
\* a pedal-down at the note's start is emitted for a note exactly when it is
\* the first note or its start exceeds the tracked last_end by more than
\* gap_threshold, and no pedal event for any other note.
C12_PedalDownAtNoteStart ==
    PedalPassDone =>
        PedalPairsAt(midi[1].control_changes, midi[1].notes, 0)

\* C12 amended: as stated, the pedal-down being at the note's start in
\* _post_process_midi and 10 ms after the note's start in
\* expressive_enhance_midi.
C12_PedalDownAtOrAfterNoteStart ==
    PedalPassDone =>
        PedalPairsAt(midi[1].control_changes, midi[1].notes,
                     IF pc = "done" THEN 0 ELSE 10)

\* C12 witness: for the notes 0-500, 520-1000, 2000-2500 ms
\* expressive_enhance_midi emitted a pair at the first note, nothing at the
\* second and a pair at the third, then the closing pedal-up.
C12_Witness ==
    /\ pc = "enhanced"
    /\ args.sustain
    /\ Len(orig[1].notes) = 3
    /\ orig[1].notes[1].start = 0 /\ orig[1].notes[1].end = 500
    /\ orig[1].notes[2].start = 520 /\ orig[1].notes[2].end = 1000
    /\ orig[1].notes[3].start = 2000 /\ orig[1].notes[3].end = 2500
    /\ midi[1].control_changes =
          <<ControlChange(0, 0), ControlChange(127, 10),
            ControlChange(0, 1970), ControlChange(127, 2010),
            ControlChange(0, 2500)>>

(***************************************************************************)
(* _arrange_piano_chords and _arrange_piano_style                          *)
(***************************************************************************)
\* mutant of ArrangerGrid: sixteenth-note blocks
ArrangerGrid_Sixteenth(bpm) == (60000 \div BpmOrDefault(bpm)) \div 4

\* grid_sec = (60.0 / bpm) / 2.0, in ms; exact for the tempos of the model
ArrangerGrid(bpm) == (60000 \div BpmOrDefault(bpm)) \div 2

\* active_pcs: the pitch classes of the notes with n.start < t2 and
\* n.end > t, in the order of the tracks and their notes
ActivePcs(m, t, t2) ==
    LET active == SelectSeq(Collect(m),
                            LAMBDA n : n.start < t2 /\ n.end > t)
    IN  [i \in 1..Len(active) |-> active[i].pitch % 12]

RECURSIVE LiftAbove(_, _)
\* while p < treble_center - 7: p += 12
LiftAbove(p, low) == IF p < low THEN LiftAbove(p + 12, low) ELSE p

RECURSIVE DropBelow(_, _)
\* while p > treble_center + 9: p -= 12
DropBelow(p, high) == IF p > high THEN DropBelow(p - 12, high) ELSE p

\* sorted(set(voiced)): the triad voiced around treble_center
VoicedTriad(chord_pcs, treble_center) ==
    SortedList({DropBelow(LiftAbove(chord_pcs[i], treble_center - 7),
                          treble_center + 9) : i \in 1..Len(chord_pcs)})

\* the notes of a block chord: the bass, then the treble pitches
BlockChord(bass_pitch, bass_velocity, treble_pitches, t, t2) ==
    <<Note(bass_pitch, bass_velocity, t, t2)>> \o
    [i \in 1..Len(treble_pitches) |-> Note(treble_pitches[i], 85, t, t2)]

\* style "arpeggio": bass then ascending treble across the block; step_dur
\* and step_dur * 0.9 are exact when the block length divides
Arpeggio(bass_pitch, treble_pitches, t, t2) ==
    LET seq == <<bass_pitch>> \o treble_pitches
        steps == Max(1, Len(seq))
        step_dur == (t2 - t) \div steps
    IN  [i \in 1..Len(seq) |->
            Note(seq[i], 82, t + (i - 1) * step_dur,
                 t + (i - 1) * step_dur + Max(80, (9 * step_dur) \div 10))]

\* style "alberti": low-high-mid-high four times
Alberti(bass_pitch, treble_pitches, treble_center, t, t2) ==
    LET triad == SubSeq(treble_pitches \o
                          <<treble_center, treble_center + 4,
                            treble_center + 7>>, 1, 3)
        pattern == <<bass_pitch, triad[3], triad[1], triad[3]>>
        step_dur == IF t2 - t > 0 THEN (t2 - t) \div 16 ELSE 100
    IN  [i \in 1..16 |->
            Note(pattern[((i - 1) % 4) + 1], 78, t + (i - 1) * step_dur,
                 t + (i - 1) * step_dur + Max(60, step_dur))]

\* the notes one pass of the block loop of _arrange_piano_style appends
StyleBlock(m, style, bass_octave, treble_center, t, t2) ==
    LET clas == _classify_chord(ActivePcs(m, t, t2))
        bass_pitch == clas[1] + bass_octave * 12
        treble_pitches == VoicedTriad(clas[2], treble_center)
    IN  IF clas = None THEN <<>>
        ELSE IF style = "arpeggio"
        THEN Arpeggio(bass_pitch, treble_pitches, t, t2)
        ELSE IF style = "alberti"
        THEN Alberti(bass_pitch, treble_pitches, treble_center, t, t2)
        ELSE BlockChord(bass_pitch, 72, treble_pitches, t, t2)

RECURSIVE StyleLoopBlocks(_, _, _)
\* the number of passes of "while t < end_time: ... t = t2" of
\* _arrange_piano_style, from time t on
StyleLoopBlocks(grid_sec, end_time, t) ==
    IF t < end_time
    THEN 1 + StyleLoopBlocks(grid_sec, end_time, Min(end_time, t + grid_sec))
    ELSE 0

RECURSIVE StyleLoop(_, _, _, _, _, _, _)
\* while t < end_time: ... of _arrange_piano_style, from time t on
StyleLoop(m, grid_sec, end_time, style, bass_octave, treble_center, t) ==
    IF t < end_time
    THEN LET t2 == Min(end_time, t + grid_sec)
         IN  StyleBlock(m, style, bass_octave, treble_center, t, t2) \o
             StyleLoop(m, grid_sec, end_time, style, bass_octave,
                       treble_center, t2)
    ELSE <<>>

\* the arguments of _post_process_midi(out, bpm, add_sustain=True)
SustainArgs(bpm) ==
    [bpm |-> Some(bpm), min_duration_sec |-> 50, sixteenth_quantize |-> TRUE,
     pitch_min |-> 21, pitch_max |-> 108, smooth_velocity |-> TRUE,
     humanize_timing_sec |-> 0, humanize_velocity_range |-> 0,
     add_sustain |-> TRUE]

\* no random draw is taken: humanization is off
NoDraws(m) ==
    [ki \in UNION {{<<k, i>> : i \in 1..Len(m[k].notes)} : k \in 1..Len(m)}
        |-> [jitter |-> 0, dv |-> 0]]

\* the returned score is the new object out
_arrange_piano_style(m, bpm, style, bass_octave, treble_center) ==
    LET out == <<Instrument(
                   StyleLoop(m, ArrangerGrid(bpm), get_end_time(m), style,
                             bass_octave, treble_center, 0), <<>>)>>
    IN  [id |-> "out",
         instruments |-> _post_process_midi(
                             out, SustainArgs(BpmOrDefault(bpm)),
                             NoDraws(out))]

\* the notes one pass of the block loop of _arrange_piano_chords appends
ChordsBlock(m, bass_octave, treble_center, t, t2) ==
    LET clas == _classify_chord(ActivePcs(m, t, t2))
    IN  IF clas = None THEN <<>>
        ELSE BlockChord(clas[1] + bass_octave * 12, 70,
                        VoicedTriad(clas[2], treble_center), t, t2)

RECURSIVE ChordsLoop(_, _, _, _, _, _)
\* while t < end_time: ... of _arrange_piano_chords, from time t on
ChordsLoop(m, grid_sec, end_time, bass_octave, treble_center, t) ==
    IF t < end_time
    THEN LET t2 == Min(end_time, t + grid_sec)
         IN  ChordsBlock(m, bass_octave, treble_center, t, t2) \o
             ChordsLoop(m, grid_sec, end_time, bass_octave, treble_center, t2)
    ELSE <<>>

\* with end_time <= 0 the returned score is the argument pm_in itself
_arrange_piano_chords(m, bpm, bass_octave, treble_center, sustain) ==
    LET out == <<Instrument(
                   ChordsLoop(m, ArrangerGrid(bpm), get_end_time(m),
                              bass_octave, treble_center, 0), <<>>)>>
    IN  IF get_end_time(m) <= 0 THEN [id |-> "pm_in", instruments |-> m]
        ELSE IF sustain
        THEN [id |-> "out",
              instruments |-> _post_process_midi(
                                  out, SustainArgs(BpmOrDefault(bpm)),
                                  NoDraws(out))]
        ELSE [id |-> "out", instruments |-> out]

\* a call of _arrange_piano_style on the score
ArrangePianoStyle ==
    /\ pc = "style"
    /\ ret' = _arrange_piano_style(midi, args.bpm, args.style,
                                   args.bass_octave, args.treble_center)
    /\ pc' = "styled"
    /\ UNCHANGED <<args, midi, orig, other>>

\* a call of _arrange_piano_chords on the score
ArrangePianoChords ==
    /\ pc = "chords"
    /\ ret' = _arrange_piano_chords(midi, args.bpm, args.bass_octave,
                                    args.treble_center, args.sustain)
    /\ pc' = "arranged"
    /\ UNCHANGED <<args, midi, orig, other>>

(***************************************************************************)
(* Calls of the arrangers with block chords.                               *)
(***************************************************************************)
ArrangeNotes ==
    {Note(60, 80, 0, 250), Note(64, 80, 0, 250), Note(67, 80, 0, 250),
     Note(62, 80, 0, 300), Note(69, 80, 250, 500)}

InitArrange ==
    /\ \/ /\ pc = "style"
          /\ args \in [bpm : {None, Some(125)}, style : {"block"},
                       bass_octave : {1, 3}, treble_center : {60}]
       \/ /\ pc = "chords"
          /\ args \in [bpm : {None, Some(125)}, bass_octave : {1, 3},
                       treble_center : {60}, sustain : BOOLEAN]
    /\ \E ns \in SeqUpTo(ArrangeNotes, MaxArrangeNotes) :
          midi \in ScoresOf(ns)
    /\ orig = midi
    /\ other = <<>>
    /\ ret = <<>>

NextArrange == ArrangePianoStyle \/ ArrangePianoChords

SpecArrange == InitArrange /\ [][NextArrange]_vars

(***************************************************************************)
(* Claims about the arrangers (checked under SpecArrange).                 *)
(***************************************************************************)
\* the arranger has returned a newly arranged score
Arranged ==
    \/ pc = "styled"
    \/ pc = "arranged" /\ ret.id = "out"

\* the start times of the blocks of the input score
BlockStarts ==
    {k * ArrangerGrid(args.bpm) :
        k \in 0..(get_end_time(midi) \div ArrangerGrid(args.bpm))}
      \cap 0..(get_end_time(midi) - 1)

\* the notes of the output that start at t and end at t2
OutputSpanning(t, t2) ==
    LET out == ret.instruments[1].notes
    IN  {i \in 1..Len(out) : out[i].start = t /\ out[i].end = t2}

\* C13 as stated: for block chords every time block in which an input note
\* sounds yields in the final output one bass note of pitch
\* root_pc + 12 * bass_octave and one treble note per triad pitch class, each
\* within 7 semitones of treble_center, all starting at the block start and
\* ending at the block end.
C13_BlockChordPerBlock ==
    Arranged =>
        \A t \in BlockStarts :
            LET t2 == Min(get_end_time(midi), t + ArrangerGrid(args.bpm))
                clas == _classify_chord(ActivePcs(midi, t, t2))
                out == ret.instruments[1].notes
                span == OutputSpanning(t, t2)
            IN  clas # None =>
                  /\ Cardinality({i \in span : out[i].pitch
                         = clas[1] + 12 * args.bass_octave}) >= 1
                  /\ \A c \in Range(clas[2]) :
                        \E i \in span :
                            /\ out[i].pitch % 12 = c
                            /\ Abs(out[i].pitch - args.treble_center) <= 7
                  /\ Cardinality(span) = 4

(***************************************************************************)
(* Claims about the Humanizer (checked under SpecHuman).                   *)
(***************************************************************************)
\* C14: after the jitter step, for any jitter amounts and any draws within
\* their ranges, every note has start >= 0, end > start and a velocity in
\* 1..127.
C14_JitterKeepsNotesValid ==
    pc = "done" =>
        \A k \in 1..Len(midi) : \A i \in 1..Len(midi[k].notes) :
            /\ midi[k].notes[i].start >= 0
            /\ midi[k].notes[i].end > midi[k].notes[i].start
            /\ midi[k].notes[i].velocity \in 1..127

\* C14 witness: with jitter 12 ms and velocity jitter 2 a note 5-100 ms of
\* velocity 127 drew -12 ms and +2: its start was clamped to 0 and its
\* velocity to 127.
C14_Witness ==
    /\ pc = "done"
    /\ args.humanize_timing_sec = 12
    /\ args.humanize_velocity_range = 2
    /\ ~args.sixteenth_quantize
    /\ ~args.add_sustain
    /\ \E i \in 1..Len(midi[1].notes) :
          /\ orig[1].notes[i] = Note(60, 127, 5, 100)
          /\ midi[1].notes[i] = Note(60, 127, 0, 88)

(***************************************************************************)
(* _refine_midi_against_audio.  The audio enters through its chroma: weak  *)
(* is the set of notes, given as <<pitch class, start, end>>, whose mean   *)
(* chroma support is below 0.12, and peaks[t] the set of pitch classes     *)
(* that are chroma peaks at the centre of the block starting at t.         *)
(***************************************************************************)
NoteKey(n) == <<n.pitch % 12, n.start, n.end>>

\* the notes with support >= 0.12, each track in a new Instrument
DropWeak(m, weak) ==
    [k \in 1..Len(m) |->
        Instrument(SelectSeq(m[k].notes, LAMBDA n : NoteKey(n) \notin weak),
                   <<>>)]

\* the pitch classes sounding in [t, t2)
ActivePcSet(m, t, t2) == Range(ActivePcs(m, t, t2))

RECURSIVE ToAdd(_, _, _, _, _)
\* for pc in candidate_pcs: ... (from index i on), to_add so far given
ToAdd(candidate_pcs, i, active_pcs, to_add, max_poly) ==
    IF i > Len(candidate_pcs) THEN to_add
    ELSE IF Cardinality(active_pcs) + Len(to_add) >= max_poly THEN to_add
    ELSE IF candidate_pcs[i] \notin active_pcs
    THEN ToAdd(candidate_pcs, i + 1, active_pcs,
               Append(to_add, candidate_pcs[i]), max_poly)
    ELSE ToAdd(candidate_pcs, i + 1, active_pcs, to_add, max_poly)

\* the filler notes of the block [t, t2), voiced around target_center = 60
Fillers(m, t, t2, peaks, max_poly) ==
    LET to_add == ToAdd(SortedList(peaks[t]), 1, ActivePcSet(m, t, t2), <<>>,
                        max_poly)
    IN  [i \in 1..Len(to_add) |->
            Note(DropBelow(LiftAbove(to_add[i], 60 - 7), 60 + 9), 82, t, t2)]

RECURSIVE FillLoop(_, _, _, _, _, _)
\* while t < end_time: ... of _refine_midi_against_audio, from time t on
FillLoop(m, grid, end_time, peaks, max_poly, t) ==
    IF t < end_time
    THEN LET t2 == Min(end_time, t + grid)
         IN  Fillers(m, t, t2, peaks, max_poly) \o
             FillLoop(m, grid, end_time, peaks, max_poly, t2)
    ELSE <<>>

\* the block starts of the fill loop
FillBlocks(m, bpm) ==
    LET grid == GridSec(bpm, TRUE)
    IN  {k * grid : k \in 0..(get_end_time(m) \div grid)}
          \cap 0..(get_end_time(m) - 1)

\* available is false when librosa cannot be imported or the chroma is
\* empty: the score is returned as it is; bpm is Some(a positive tempo)
_refine_midi_against_audio(m, bpm, max_poly, available, weak, peaks) ==
    LET kept == DropWeak(m, weak)
        additions == FillLoop(kept, GridSec(bpm, TRUE), get_end_time(kept),
                              peaks, max_poly, 0)
        target == IF kept = <<>> THEN <<Instrument(<<>>, <<>>)>> ELSE kept
        extended == [target EXCEPT ![1].notes = @ \o additions]
    IN  IF ~available THEN m
        ELSE IF additions # <<>>
        THEN _clean_polyphony(extended, 30, max_poly)
        ELSE kept

(***************************************************************************)
(* The profile chain of transcribe_to_midi, one action per stage.  midi is *)
(* pm, the score loaded from Basic Pitch's file.                           *)
(***************************************************************************)
\* prof = (profile or "balanced").lower(), then the profile's controls
ProfileControls(profile, humanize, add_sustain) ==
    IF profile = "fast"
    THEN [human_timing |-> 0, human_vel |-> IF humanize THEN 2 ELSE 0,
          sustain_flag |-> FALSE, poly_cap |-> 4, min_dur |-> 50]
    ELSE IF profile = "accurate"
    THEN [human_timing |-> 0, human_vel |-> 0, sustain_flag |-> FALSE,
          poly_cap |-> 2, min_dur |-> 70]
    ELSE [human_timing |-> IF humanize THEN 12 ELSE 0,
          human_vel |-> IF humanize THEN 10 ELSE 0,
          sustain_flag |-> add_sustain, poly_cap |-> 3, min_dur |-> 60]

Controls == ProfileControls(args.profile, args.humanize, args.add_sustain)

\* the arguments of the call of _post_process_midi in the chain
ChainPostArgs ==
    [bpm |-> args.bpm_estimate, min_duration_sec |-> 50,
     sixteenth_quantize |-> TRUE, pitch_min |-> 21, pitch_max |-> 108,
     smooth_velocity |-> TRUE,
     humanize_timing_sec |-> Controls.human_timing,
     humanize_velocity_range |-> Controls.human_vel,
     add_sustain |-> Controls.sustain_flag]

\* pm = _post_process_midi(pm, bpm_estimate, ...)
ChainPostProcess ==
    /\ pc = "loaded"
    /\ \E draws \in Draws(midi, ChainPostArgs) :
          midi' = _post_process_midi(midi, ChainPostArgs, draws)
    /\ pc' = "post_processed"
    /\ UNCHANGED <<args, orig, other, ret>>

\* pm = _clean_polyphony(pm, onset_window_sec=0.03, ...), both calls
ChainCleanPolyphony ==
    /\ pc \in {"post_processed", "refined"}
    /\ midi' = _clean_polyphony(midi, 30, Controls.poly_cap)
    /\ pc' = IF pc = "refined" THEN "recleaned" ELSE "cleaned"
    /\ UNCHANGED <<args, orig, other, ret>>

\* pm = _limit_pitch_and_length(pm, pitch_min=36, pitch_max=96, ...), both
\* calls
ChainLimit ==
    /\ pc \in {"cleaned", "recleaned"}
    /\ midi' = _limit_pitch_and_length(midi, 36, 96, Controls.min_dur)
    /\ pc' = IF pc = "recleaned" \/ args.profile # "accurate"
             THEN "limited" ELSE "limited_once"
    /\ UNCHANGED <<args, orig, other, ret>>

\* the pitch classes the audio can show as chroma peaks
ChromaPeaks == {0, 7}

\* pm = _refine_midi_against_audio(pm, separated_wav,
\*                                 bpm=bpm_estimate or 120.0, ...)
ChainRefine ==
    /\ pc = "limited_once"
    /\ \E available \in BOOLEAN :
       \E weak \in SUBSET {NoteKey(n) : n \in Range(Collect(midi))} :
       \E peaks \in [FillBlocks(DropWeak(midi, weak), args.bpm_estimate)
                        -> SUBSET ChromaPeaks] :
          midi' = _refine_midi_against_audio(
                      midi, Some(BpmOrDefault(args.bpm_estimate)),
                      Controls.poly_cap, available, weak, peaks)
    /\ pc' = "refined"
    /\ UNCHANGED <<args, orig, other, ret>>

\* if pm.instruments: ... pm.instruments = [first]
ChainFlatten ==
    /\ pc = "limited"
    /\ midi' = IF midi = <<>> THEN midi
               ELSE <<[midi[1] EXCEPT !.notes = Collect(midi)]>>
    /\ ret' = midi'
    /\ pc' = "written"
    /\ UNCHANGED <<args, orig, other>>

ChainNotes ==
    {Note(60, 80, 0, 250), Note(60, 80, 20, 250), Note(64, 90, 0, 125),
     Note(30, 80, 0, 250), Note(36, 60, 0, 250)}

InitChain ==
    /\ pc = "loaded"
    /\ args \in [profile : {"balanced"}, humanize : BOOLEAN,
                 add_sustain : BOOLEAN, bpm_estimate : {None}]
              \cup [profile : {"fast"}, humanize : BOOLEAN,
                    add_sustain : {TRUE}, bpm_estimate : {None}]
              \cup [profile : {"accurate"}, humanize : {TRUE},
                    add_sustain : {TRUE}, bpm_estimate : {None}]
    /\ \E ns \in SeqUpTo(ChainNotes, MaxChainNotes) : midi \in ScoresOf(ns)
    /\ orig = midi
    /\ other = <<>>
    /\ ret = <<>>

NextChain ==
    \/ ChainPostProcess
    \/ ChainCleanPolyphony
    \/ ChainLimit
    \/ ChainRefine
    \/ ChainFlatten

SpecChain == InitChain /\ [][NextChain]_vars

(***************************************************************************)
(* Claims about the stages of the chain (checked under SpecChain).         *)
(***************************************************************************)
\* the notes are in non-decreasing start order
InStartOrder(ns) ==
    \A i \in 1..(Len(ns) - 1) : ns[i].start <= ns[i + 1].start

\* the notes are in start order, notes of equal start in ascending pitch
\* order
InStartThenPitchOrder(ns) ==
    \A i \in 1..(Len(ns) - 1) :
        \/ ns[i].start < ns[i + 1].start
        \/ ns[i].start = ns[i + 1].start /\ ns[i].pitch <= ns[i + 1].pitch

\* the stage that just ran was the Pedal Synthesizer's sort
AfterPedalSort == pc = "post_processed" /\ Controls.sustain_flag

\* the stage that just ran was the Polyphony Resolver
AfterResolver == pc \in {"cleaned", "recleaned"}

C19_ChainOutputHasNoNearDuplicates ==
    pc = "written" =>
        /\ Len(midi) <= 1
        /\ \A k \in 1..Len(midi) :
              \A i, j \in 1..Len(midi[k].notes) :
                  (i < j /\ midi[k].notes[i].pitch = midi[k].notes[j].pitch)
                      => Abs(midi[k].notes[i].start - midi[k].notes[j].start)
                            > 30

(***************************************************************************)
(* Claims about the scores the arrangers return (checked under             *)
(* SpecArrange).                                                           *)
(***************************************************************************)
\* C16 as stated: the arrangers never change their input score and return,
\* for every input, a score with no notes included, a newly constructed
\* single-instrument score that is a different object from the input.
C16_FreshScoreReturned ==
    pc \in {"styled", "arranged"} =>
        /\ midi = orig
        /\ ret.id = "out"
        /\ Len(ret.instruments) = 1

(***************************************************************************)
(* The profile chain on scores with malformed notes.                       *)
(***************************************************************************)
IngestNotes ==
    {Note(60, 80, 100, 100), Note(60, 80, 300, 200), Note(-3, 80, 0, 250),
     Note(60, -5, 0, 250), Note(64, 90, 0, 250)}

InitIngest ==
    /\ pc = "loaded"
    /\ args \in [profile : {"balanced", "accurate"}, humanize : {FALSE},
                 add_sustain : {TRUE}, bpm_estimate : {None}]
              \cup [profile : {"fast"}, humanize : BOOLEAN,
                    add_sustain : {TRUE}, bpm_estimate : {None}]
    /\ \E ns \in SeqUpTo(IngestNotes, MaxChainNotes) : midi \in ScoresOf(ns)
    /\ orig = midi
    /\ other = <<>>
    /\ ret = <<>>

SpecIngest == InitIngest /\ [][NextChain]_vars

\* a note with end <= start or a negative pitch or velocity
Malformed(n) == n.end <= n.start \/ n.pitch < 0 \/ n.velocity < 0

HasMalformedNote(m) == \E n \in Range(Collect(m)) : Malformed(n)

\* C17 as stated: a score that holds a malformed note is rejected when it
\* enters the pipeline (the chain stops in the rejected outcome), and no
\* stage rewrites the note.
C17_MalformedScoreRejected ==
    (HasMalformedNote(orig) /\ pc # "loaded") =>
        (pc = "rejected" /\ midi = orig)

(***************************************************************************)
(* Calls of the five transforms on degenerate and ordinary scores: no      *)
(* instruments, an instrument without notes, a timeline of duration zero,  *)
(* bpm absent.  args.fn names the transform that is called.                *)
(***************************************************************************)
TotalNotes == {Note(60, 80, 0, 0), Note(60, 80, 0, 320), Note(64, 80, 240, 240)}

TotalScores == UNION {ScoresOf(ns) : ns \in SeqUpTo(TotalNotes, MaxTotalNotes)}

InitTotal ==
    /\ midi \in TotalScores
    /\ \/ /\ pc = "ready"
          /\ args \in [fn : {"_post_process_midi"}, bpm : {None, Some(120)},
                       min_duration_sec : {50}, sixteenth_quantize : BOOLEAN,
                       pitch_min : {21}, pitch_max : {108},
                       smooth_velocity : {TRUE}, humanize_timing_sec : {0},
                       humanize_velocity_range : {0}, add_sustain : BOOLEAN]
          /\ other = <<>>
       \/ /\ pc = "ready"
          /\ args \in [fn : {"_clean_polyphony"}, onset_window_sec : {0, 30},
                       max_notes_per_onset : {1, 2}]
          /\ other = <<>>
       \/ /\ pc = "ready"
          /\ args \in [fn : {"_limit_pitch_and_length"}, pitch_min : {36},
                       pitch_max : {96}, min_duration_sec : {0, 60}]
          /\ other = <<>>
       \/ /\ pc = "ready"
          /\ args \in [fn : {"_merge_midis_union"}, onset_window_sec : {30},
                       dedup_window_sec : {20}]
          /\ other \in TotalScores
       \/ /\ pc = "style"
          /\ args \in [fn : {"_arrange_piano_style"}, bpm : {None},
                       style : {"block"}, bass_octave : {3},
                       treble_center : {60}]
                    \cup [fn : {"_arrange_piano_style"}, bpm : {Some(125)},
                          style : {"block", "arpeggio", "alberti"},
                          bass_octave : {3}, treble_center : {60}]
          /\ other = <<>>
    /\ orig = midi
    /\ ret = <<>>

NextTotal ==
    \/ args.fn = "_post_process_midi" /\ PostProcessMidi
    \/ args.fn = "_clean_polyphony" /\ CleanPolyphony
    \/ args.fn = "_limit_pitch_and_length" /\ LimitPitchAndLength
    \/ args.fn = "_merge_midis_union" /\ MergeMidisUnion
    \/ args.fn = "_arrange_piano_style" /\ ArrangePianoStyle

SpecTotal == InitTotal /\ [][NextTotal]_vars

(***************************************************************************)
(* Claims about totality (checked under SpecTotal).                        *)
(***************************************************************************)
\* x is a score: a list of instruments, each with notes whose fields are
\* numbers
IsScore(x) ==
    \A k \in 1..Len(x) :
        /\ DOMAIN x[k] = {"notes", "control_changes"}
        /\ \A i \in 1..Len(x[k].notes) :
              /\ x[k].notes[i].pitch \in Int
              /\ x[k].notes[i].velocity \in Int
              /\ x[k].notes[i].start \in Int
              /\ x[k].notes[i].end \in Int

\* the score the call returned
Returned == IF pc = "styled" THEN ret.instruments ELSE ret

\* the score has no instruments, no notes, or a timeline of duration zero
Degenerate(m) == get_end_time(m) = 0

\* ceil(a / b) for b > 0
CeilDiv(a, b) == (a + b - 1) \div b

\* the call has returned
Finished == pc \in {"done", "styled"}

\* C18: what each of the five transforms returns, on any score (among them
\* a score with no instruments, an instrument with no notes, a timeline of
\* duration zero) and with bpm absent (120), is a score, empty of notes for
\* the Arranger on a timeline of duration zero; the block loop of the
\* Arranger makes at most ceil(end_time / grid) passes, grid = 60 / bpm / 2
\* (no pass at all on a timeline of duration zero).
C18_TransformsAreTotal ==
    /\ Finished => IsScore(Returned)
    /\ (pc = "styled" /\ Degenerate(midi)) => Collect(Returned) = <<>>
    /\ args.fn = "_arrange_piano_style" =>
          StyleLoopBlocks(ArrangerGrid(args.bpm), get_end_time(midi), 0)
              <= CeilDiv(get_end_time(midi),
                         30000 \div BpmOrDefault(args.bpm))

\* C18 witness: _arrange_piano_style returned a score of one empty
\* instrument for a score without instruments and absent bpm.
C18_Witness ==
    /\ pc = "styled"
    /\ orig = <<>>
    /\ args.bpm = None
    /\ ret.instruments = <<Instrument(<<>>, <<>>)>>

(***************************************************************************)
(* The block loop of _arrange_piano_style in floating point.  t, grid_sec  *)
(* and end_time are Python floats; t advances by t2 = min(end_time,        *)
(* t + grid_sec), and the sum is rounded to the nearest float, ties to the *)
(* even significand.  A float is written here as a whole number of the     *)
(* smallest unit in play, with MantissaBits significant bits (the code's   *)
(* floats have 53).                                                        *)
(***************************************************************************)
RECURSIVE Ulp(_, _)
\* the spacing of the floats around x >= 0: the least q = 2^k, from q on,
\* with x < q * 2^MantissaBits
Ulp(x, q) == IF x < q * (2 ^ MantissaBits) THEN q ELSE Ulp(x, 2 * q)

\* the float nearest to x >= 0, ties to the even significand
RoundToFloat(x) ==
    LET q == Ulp(x, 1)
        lo == (x \div q) * q
        r == x - lo
    IN  IF 2 * r < q THEN lo
        ELSE IF 2 * r > q THEN lo + q
        ELSE IF (lo \div q) % 2 = 0 THEN lo ELSE lo + q

\* a + b on floats
FloatAdd(a, b) == RoundToFloat(a + b)

\* the floats from 0 to MaxFloat
Floats == {x \in 0..MaxFloat : RoundToFloat(x) = x}

\* the loop is entered with t = 0.0; grid_sec > 0 and end_time >= 0 are
\* floats, end_time at most MaxBlocks grids
InitBlocks ==
    /\ pc = "block_loop"
    /\ args \in {a \in [fn : {"block_loop"}, grid_sec : Floats \ {0},
                        end_time : Floats] :
                    a.end_time <= MaxBlocks * a.grid_sec}
    /\ ret = [t |-> 0, blocks |-> 0]
    /\ midi = <<>>
    /\ orig = <<>>
    /\ other = <<>>

\* one pass of "while t < end_time: t2 = min(end_time, t + grid_sec);
\* ...; t = t2"
BlockLoopPass ==
    /\ pc = "block_loop"
    /\ ret.t < args.end_time
    /\ ret' = [t |-> Min(args.end_time, FloatAdd(ret.t, args.grid_sec)),
               blocks |-> ret.blocks + 1]
    /\ UNCHANGED <<pc, args, midi, orig, other>>

\* the loop condition t < end_time fails
BlockLoopExit ==
    /\ pc = "block_loop"
    /\ ~(ret.t < args.end_time)
    /\ pc' = "blocks_done"
    /\ UNCHANGED <<args, midi, orig, other, ret>>

NextBlocks == BlockLoopPass \/ BlockLoopExit

SpecBlocks == InitBlocks /\ [][NextBlocks]_vars

(***************************************************************************)
(* Claims about the block loop (checked under SpecBlocks).                 *)
(***************************************************************************)
\* C18: the block loop of the Arranger makes at most ceil(end_time / grid)
\* passes for every positive grid (every positive bpm).
C18_BlockLoopBounded ==
    pc \in {"block_loop", "blocks_done"} =>
        ret.blocks <= CeilDiv(args.end_time, args.grid_sec)

\* the loop always moves t forward, so it ends
C18_BlockLoopAdvances ==
    [][pc = "block_loop" /\ pc' = "block_loop" => ret'.t > ret.t]_vars


(***************************************************************************)
(* The job service of app.py: POST /transcribe_start, the runner thread    *)
(* _transcribe_job_runner_mode, and GET /job/{job_id}.                     *)
(*   pc[j]    the position of the runner thread of job j                   *)
(*   args[j]  the arguments the thread was started with                    *)
(*   other[j] the job directory: progress.json and transcribed.mid         *)
(*   ret      the last HTTP response                                       *)
(* The file system is taken to work: a write of progress.json succeeds.    *)
(* progress is in percent.                                                 *)
(***************************************************************************)
\* the job ids uuid4().hex[:8] can give, all different
JobIds == {"0a1b2c3d", "4e5f6a7b"}

Modes == {"pure", "hybrid", "enhanced", "fast"}

Extensions == {".wav", ".mp3"}

\* mutant of _write_progress: the write fails and the exception is swallowed
_write_progress_Failed(job_dir, status, progress, error) == job_dir

\* _write_progress(job_dir, status, progress, error): progress.json is
\* rewritten; the key "error" is there when error is a non-empty string
_write_progress(job_dir, status, progress, error) ==
    [job_dir EXCEPT !.progress_json =
        Some([status |-> status, progress |-> progress, error |-> error])]

\* the body of job_status for a job directory that exists
JobResponse(job_id, job_dir) ==
    LET progress_data ==
            IF job_dir.progress_json # None
            THEN job_dir.progress_json[1]
            ELSE [status |-> "unknown", progress |-> 0, error |-> None]
        midi_exists == job_dir.transcribed_mid
        patched == midi_exists /\ progress_data.status \notin {"done", "error"}
    IN  [code |-> 200,
         job_id |-> job_id,
         status |-> IF patched THEN "done" ELSE progress_data.status,
         progress |-> IF patched THEN 100 ELSE progress_data.progress,
         error |-> progress_data.error,
         midi_url |-> IF midi_exists THEN Some(job_id) ELSE None]

\* before any job is started
InitJobs ==
    /\ pc = [j \in JobIds |-> "absent"]
    /\ args = [j \in JobIds |-> None]
    /\ other = [j \in JobIds |-> None]
    /\ ret = <<>>
    /\ midi = <<>>
    /\ orig = <<>>

\* POST /transcribe_start: the job directory is made, the upload saved and
\* the runner thread started
TranscribeStart(j) ==
    /\ pc[j] = "absent"
    /\ \E mode \in Modes, original_ext \in Extensions :
          args' = [args EXCEPT ![j] =
                      Some([mode |-> mode, original_ext |-> original_ext])]
    /\ other' = [other EXCEPT ![j] =
                    Some([progress_json |-> None, transcribed_mid |-> FALSE])]
    /\ pc' = [pc EXCEPT ![j] = "queued"]
    /\ ret' = [code |-> 200, job_id |-> j, status |-> "queued"]
    /\ UNCHANGED <<midi, orig>>

\* the runner moves from one position to the next and writes a progress
\* record
RunnerWrites(j, from, to, status, progress, error) ==
    /\ pc[j] = from
    /\ other' = [other EXCEPT ![j] =
                    Some(_write_progress(other[j][1], status, progress,
                                         error))]
    /\ pc' = [pc EXCEPT ![j] = to]
    /\ UNCHANGED <<args, midi, orig, ret>>

\* _write_progress(job_dir, "processing", 0.1)
RunnerBegin(j) ==
    RunnerWrites(j, "queued", "convert", "processing", 10, None)

\* wav_path = _convert_to_wav(original_path) if the upload is not a .wav:
\* the conversion returns or raises
RunnerConvert(j) ==
    /\ pc[j] = "convert"
    /\ \/ pc' = [pc EXCEPT ![j] = "converted"]
       \/ /\ args[j][1].original_ext \notin {".wav", ".wave"}
          /\ pc' = [pc EXCEPT ![j] = "raised"]
    /\ UNCHANGED <<args, midi, orig, other, ret>>

\* _write_progress(job_dir, "processing", 0.3)
RunnerConverted(j) ==
    RunnerWrites(j, "converted", "transcribe", "processing", 30, None)

\* the transcription call of the mode (pure for an unknown mode) raises
\* before it writes transcribed.mid, or writes it
RunnerTranscribe(j) ==
    /\ pc[j] = "transcribe"
    /\ \/ /\ pc' = [pc EXCEPT ![j] = "raised"]
          /\ UNCHANGED other
       \/ /\ pc' = [pc EXCEPT ![j] = "written"]
          /\ other' = [other EXCEPT ![j] =
                          Some([other[j][1] EXCEPT !.transcribed_mid = TRUE])]
    /\ UNCHANGED <<args, midi, orig, ret>>

\* the transcription call, with transcribed.mid written, loads it for the
\* statistics and returns, or raises
RunnerTranscribeEnds(j) ==
    /\ pc[j] = "written"
    /\ \/ pc' = [pc EXCEPT ![j] = "transcribed"]
       \/ pc' = [pc EXCEPT ![j] = "raised"]
    /\ UNCHANGED <<args, midi, orig, other, ret>>

\* _write_progress(job_dir, "processing", 0.8)
RunnerTranscribed(j) ==
    RunnerWrites(j, "transcribed", "finishing", "processing", 80, None)

\* _write_progress(job_dir, "done", 1.0)
RunnerDone(j) ==
    RunnerWrites(j, "finishing", "finished", "done", 100, None)

\* except Exception as e: _write_progress(job_dir, "error", 1.0, str(e))
RunnerError(j) ==
    RunnerWrites(j, "raised", "failed", "error", 100, Some("str(e)"))

\* the steps of the thread _transcribe_job_runner_mode of job j
Runner(j) ==
    \/ RunnerBegin(j)
    \/ RunnerConvert(j)
    \/ RunnerConverted(j)
    \/ RunnerTranscribe(j)
    \/ RunnerTranscribeEnds(j)
    \/ RunnerTranscribed(j)
    \/ RunnerDone(j)
    \/ RunnerError(j)

\* GET /job/{job_id}: 404 when the job directory does not exist
JobStatus(j) ==
    /\ ret' = IF other[j] = None
              THEN [code |-> 404, job_id |-> j, status |-> "Job not found"]
              ELSE JobResponse(j, other[j][1])
    /\ UNCHANGED <<pc, args, midi, orig, other>>

NextJobs ==
    \E j \in JobIds :
        \/ TranscribeStart(j)
        \/ Runner(j)
        \/ JobStatus(j)

SpecJobs == InitJobs /\ [][NextJobs]_vars

\* a started thread runs, and each call it makes returns or raises
SpecJobsRun == SpecJobs /\ \A j \in JobIds : WF_vars(Runner(j))

(***************************************************************************)
(* Claims about the job service (checked under SpecJobsRun).               *)
(***************************************************************************)
\* the status in the progress record of job j ("none" without a record)
RecordedStatus(j) ==
    IF other[j] = None \/ other[j][1].progress_json = None THEN "none"
    ELSE other[j][1].progress_json[1].status

\* the progress record of job j says done or error
TerminalRecord(j) == RecordedStatus(j) \in {"done", "error"}

\* the response reports done with a midi_url, or error
ReportsTerminal(response) ==
    /\ response.code = 200
    /\ \/ response.status = "done" /\ response.midi_url # None
       \/ response.status = "error"

MergedAfter(i) ==
    DedupLoop(SubSeq(SortForUnion(MergeIn), 1, i), 1, <<>>,
              args.dedup_window_sec)

\* the i-th sorted note meets the last kept note: same pitch, start within
\* dedup_window_sec
MeetsLastKept(i) ==
    LET n == SortForUnion(MergeIn)[i]
        kept == MergedAfter(i - 1)
    IN  /\ kept # <<>>
        /\ n.pitch = kept[Len(kept)].pitch
        /\ Abs(n.start - kept[Len(kept)].start) <= args.dedup_window_sec

\* the notes of x and y the claim lets survive: the longer one; of two
\* equally long ones the one of higher velocity
Survivors(x, y) ==
    IF x.end - x.start > y.end - y.start THEN {x}
    ELSE IF y.end - y.start > x.end - x.start THEN {y}
    ELSE IF x.velocity > y.velocity THEN {x}
    ELSE IF y.velocity > x.velocity THEN {y}
    ELSE {x, y}

CapGroups ==
    OnsetGroups(MergeLoop(SortForMerge(orig[1].notes), 1, <<>>,
                          args.onset_window_sec),
                1, args.onset_window_sec)

\* the notes the cap keeps of the cluster group
KeptOf(group) == Range(CapGroup(group, args.max_notes_per_onset))

\* C22: in the cap pass the notes of one onset cluster are ranked by
\* velocity descending and, among notes of equal velocity, by pitch
\* descending: of two notes of equal velocity the lower one is kept only
\* when the higher one is kept.
C22_EqualVelocityKeepsHigherPitch ==
    pc = "done" =>
        LET groups == CapGroups
        IN  \A g \in 1..Len(groups) :
                LET kept == KeptOf(groups[g])
                IN  \A x, y \in Range(groups[g]) :
                        (x.velocity = y.velocity /\ x.pitch < y.pitch
                            /\ x \in kept)
                                => y \in kept

\* C22 amended: among notes of equal velocity the rank is by pitch
\* ascending: a note is kept only when every louder note of its cluster is
\* kept, and of two notes of equal velocity the higher one is kept only when
\* the lower one is kept.
C22_EqualVelocityKeepsLowerPitch ==
    pc = "done" =>
        LET groups == CapGroups
        IN  \A g \in 1..Len(groups) :
                LET kept == KeptOf(groups[g])
                IN  \A x, y \in Range(groups[g]) :
                        /\ (x.velocity < y.velocity /\ x \in kept)
                              => y \in kept
                        /\ (x.velocity = y.velocity /\ x.pitch < y.pitch
                              /\ y \in kept)
                                => x \in kept

\* C22 witness: the cap cut between two notes of equal velocity of one
\* cluster, and the lower one is the one in the output.
C22_Witness ==
    /\ pc = "done"
    /\ \E g \in 1..Len(CapGroups) :
          \E x, y \in Range(CapGroups[g]) :
              /\ x.velocity = y.velocity
              /\ x.pitch < y.pitch
              /\ x \in Range(midi[1].notes)
              /\ y \notin Range(midi[1].notes)

(***************************************************************************)
(* Further claims about the pedal passes (checked under SpecPedal).        *)
(***************************************************************************)
\* the pedal was engaged: a pedal-down event is among the control changes
PedalEngaged(cc) == \E k \in 1..Len(cc) : cc[k].value = 127

\* the latest end among the notes ns
LatestEnd(ns) ==
    CHOOSE e \in {ns[i].end : i \in 1..Len(ns)} :
        \A i \in 1..Len(ns) : ns[i].end <= e

\* C23: when the pedal was engaged at least once for an instrument, the
\* last control event emitted is a pedal-up (value 0) whose time is the end
\* of the last note in start order, also when an earlier note ends later.
C23_FinalLiftAtLastNoteEnd ==
    (PedalPassDone /\ PedalEngaged(midi[1].control_changes)) =>
        LET cc == midi[1].control_changes
            ns == midi[1].notes
        IN  /\ cc[Len(cc)].number = 64
            /\ cc[Len(cc)].value = 0
            /\ cc[Len(cc)].time = ns[Len(ns)].end

\* C23 amended: the time of that last pedal-up is the latest end among the
\* notes of the instrument.
C23_FinalLiftAtLatestEnd ==
    (PedalPassDone /\ PedalEngaged(midi[1].control_changes)) =>
        LET cc == midi[1].control_changes
            ns == midi[1].notes
        IN  /\ \A i \in 1..(Len(ns) - 1) : ns[i].start <= ns[i + 1].start
            /\ cc[Len(cc)].number = 64
            /\ cc[Len(cc)].value = 0
            /\ cc[Len(cc)].time = LatestEnd(ns)

\* C23 witness: the last note in start order ends before an earlier note,
\* and the closing pedal-up is at the earlier note's end.
C23_Witness ==
    /\ PedalPassDone
    /\ PedalEngaged(midi[1].control_changes)
    /\ Len(midi[1].notes) >= 2
    /\ midi[1].notes[Len(midi[1].notes)].end < LatestEnd(midi[1].notes)
    /\ midi[1].control_changes[Len(midi[1].control_changes)].time
          = LatestEnd(midi[1].notes)

(***************************************************************************)
(* Calls of _arrange_piano_style with the styles arpeggio and alberti, at  *)
(* 125 bpm: a block is 240 ms, a sixteenth 120 ms, and the step of either  *)
(* style is a whole number of ms in a block of 240 or 160 ms.              *)
(***************************************************************************)
StyleNotes ==
    {Note(60, 80, 0, 240), Note(64, 80, 0, 240), Note(67, 80, 0, 400),
     Note(65, 80, 240, 480)}

InitStyle ==
    /\ pc = "style"
    /\ args \in [bpm : {Some(125)}, style : {"arpeggio", "alberti"},
                 bass_octave : {3}, treble_center : {60}]
    /\ \E ns \in SeqUpTo(StyleNotes, MaxStyleNotes) : midi \in ScoresOf(ns)
    /\ orig = midi
    /\ other = <<>>
    /\ ret = <<>>

NextStyle == ArrangePianoStyle

SpecStyle == InitStyle /\ [][NextStyle]_vars

(***************************************************************************)
(* Claims about the styles (checked under SpecStyle).                      *)
(***************************************************************************)
\* the notes of the returned score that start in the block [t, t2), in
\* list order
BlockOutput(t, t2) ==
    SelectSeq(ret.instruments[1].notes,
              LAMBDA n : t <= n.start /\ n.start < t2)

\* the notes ns have the pitches seq, and the i-th of the k notes starts at
\* t + (i - 1) * ((t2 - t) / k)
EvenlySpread(ns, seq, t, t2) ==
    /\ Len(ns) = Len(seq)
    /\ \A i \in 1..Len(ns) :
          /\ ns[i].pitch = seq[i]
          /\ Len(seq) * (ns[i].start - t) = (i - 1) * (t2 - t)

\* C24: for style arpeggio, in the returned score each classified block
\* holds the bass note followed by the treble pitches in ascending order,
\* the k notes starting at block_start + i * (block_length / k).
C24_ArpeggioEvenlySpread ==
    (pc = "styled" /\ args.style = "arpeggio") =>
        \A t \in BlockStarts :
            LET t2 == Min(get_end_time(midi), t + ArrangerGrid(args.bpm))
                clas == _classify_chord(ActivePcs(midi, t, t2))
            IN  clas # None =>
                  EvenlySpread(BlockOutput(t, t2),
                      <<clas[1] + 12 * args.bass_octave>>
                          \o VoicedTriad(clas[2], args.treble_center),
                      t, t2)

\* the pattern of style alberti: bass, highest, lowest, highest triad tone,
\* four times
AlbertiPattern(bass_pitch, triad) ==
    [i \in 1..16 |->
        <<bass_pitch, triad[3], triad[1], triad[3]>>[((i - 1) % 4) + 1]]

\* C25: for style alberti, in the returned score each classified block
\* holds 16 notes whose pitches follow the pattern (bass, highest triad
\* tone, lowest triad tone, highest triad tone) four times, the 16 onsets
\* spread evenly across the block in that order.
C25_AlbertiEvenlySpread ==
    (pc = "styled" /\ args.style = "alberti") =>
        \A t \in BlockStarts :
            LET t2 == Min(get_end_time(midi), t + ArrangerGrid(args.bpm))
                clas == _classify_chord(ActivePcs(midi, t, t2))
            IN  clas # None =>
                  EvenlySpread(BlockOutput(t, t2),
                      AlbertiPattern(clas[1] + 12 * args.bass_octave,
                          VoicedTriad(clas[2], args.treble_center)),
                      t, t2)

(***************************************************************************)
(* Further claims about the Humanizer (checked under SpecHuman).           *)
(***************************************************************************)
\* the notes of the instrument as the jitter step finds them
BeforeJitter ==
    SmoothNotes([i \in 1..Len(orig[1].notes) |->
                    QuantizeNote(orig[1].notes[i], args)], args)

\* C26: the timing jitter shifts a note's start and end by the same offset:
\* for every note and every drawn offset the duration after the jitter is
\* the duration before it, also for a note that starts closer to time 0
\* than the offset.  (Without the pedal pass the list keeps its order.)
C26_JitterPreservesDuration ==
    (pc = "done" /\ ~args.add_sustain) =>
        \A i \in 1..Len(midi[1].notes) :
            midi[1].notes[i].end - midi[1].notes[i].start
                = BeforeJitter[i].end - BeforeJitter[i].start

(***************************************************************************)
(* Calls of _refine_midi_against_audio at 120 bpm (blocks of 125 ms) on    *)
(* notes of which two share the pitch class 0 in different octaves.  The   *)
(* audio of the call is kept in other: available, weak and peaks.          *)
(***************************************************************************)
RefineNotes ==
    {Note(60, 80, 0, 125), Note(72, 80, 0, 125), Note(64, 80, 0, 125),
     Note(62, 80, 125, 250)}

InitRefine ==
    /\ pc = "refine"
    /\ args \in [bpm : {None}, max_poly : {2, 3}]
    /\ \E ns \in SeqUpTo(RefineNotes, MaxRefineNotes) :
          midi = <<Instrument(ns, <<>>)>>
    /\ orig = midi
    /\ other = <<>>
    /\ ret = <<>>

\* a call of _refine_midi_against_audio on the score, with some audio
RefineMidiAgainstAudio ==
    /\ pc = "refine"
    /\ \E available \in BOOLEAN :
       \E weak \in SUBSET {NoteKey(n) : n \in Range(Collect(midi))} :
       \E peaks \in [FillBlocks(DropWeak(midi, weak), args.bpm)
                        -> SUBSET ChromaPeaks] :
          /\ midi' = _refine_midi_against_audio(
                         midi, Some(BpmOrDefault(args.bpm)), args.max_poly,
                         available, weak, peaks)
          /\ other' = [available |-> available, weak |-> weak,
                       peaks |-> peaks]
    /\ ret' = midi'
    /\ pc' = "refine_done"
    /\ UNCHANGED <<args, orig>>

NextRefine == RefineMidiAgainstAudio

SpecRefine == InitRefine /\ [][NextRefine]_vars

(***************************************************************************)
(* Claims about the fill phase (checked under SpecRefine).                 *)
(***************************************************************************)
\* the score the fill phase works on: the notes with chroma support
KeptForFill == DropWeak(orig, other.weak)

\* how many notes of the score m sound in the block [t, t2)
SoundingIn(m, t, t2) ==
    Len(SelectSeq(Collect(m), LAMBDA n : n.start < t2 /\ n.end > t))

\* C27: in the fill phase filler notes are created only for pitch classes
\* not already sounding in the block, and no filler is added to a block in
\* which the notes sounding (existing notes plus fillers already added)
\* have reached max_poly, also when several existing notes share one pitch
\* class in different octaves.
C27_FillersRespectMaxPoly ==
    (pc = "refine_done" /\ other.available) =>
        \A t \in FillBlocks(KeptForFill, args.bpm) :
            LET t2 == Min(get_end_time(KeptForFill),
                          t + GridSec(Some(BpmOrDefault(args.bpm)), TRUE))
                fill == Fillers(KeptForFill, t, t2, other.peaks,
                                args.max_poly)
            IN  /\ \A i \in 1..Len(fill) :
                      fill[i].pitch % 12
                          \notin ActivePcSet(KeptForFill, t, t2)
                /\ fill # <<>> =>
                      SoundingIn(KeptForFill, t, t2) + Len(fill)
                          <= args.max_poly

(***************************************************************************)
(* Claims about velocity smoothing (checked under SpecQuant).              *)
(***************************************************************************)
\* C28: with velocity smoothing on and at least three notes in an
\* instrument each velocity becomes the rounded local average (weights
\* 1, 2, 1 over their sum) of the note and its neighbours, so an instrument
\* whose notes all have the velocity v keeps v on every note, the first and
\* the last included.
C28_SmoothingKeepsEqualVelocities ==
    (pc = "done" /\ args.smooth_velocity /\ Len(orig[1].notes) >= 3) =>
        \A v \in 1..127 :
            (\A i \in 1..Len(orig[1].notes) : orig[1].notes[i].velocity = v)
                => \A i \in 1..Len(midi[1].notes) :
                       midi[1].notes[i].velocity = v

\* C29: the merger is commutative on note values: _merge_midis_union(A, B)
\* and _merge_midis_union(B, A) return the same sequence of
\* (pitch, velocity, start, end) notes.
C29_MergeCommutes ==
    pc = "done" =>
        ret[1].notes = _merge_midis_union(other, midi, args.onset_window_sec,
                                          args.dedup_window_sec)[1].notes

\* C29 witness: the two argument orders give the dedup loop different
\* sequences (notes of equal sort key in both scores), and the loop dropped
\* a near-identical note.
C29_Witness ==
    /\ pc = "done"
    /\ SortForUnion(Collect(midi) \o Collect(other))
          # SortForUnion(Collect(other) \o Collect(midi))
    /\ Collect(midi) # <<>>
    /\ Collect(other) # <<>>
    /\ Len(ret[1].notes) < Len(Collect(midi)) + Len(Collect(other))
    /\ Len(ret[1].notes) >= 2

(***************************************************************************)
(* Further claims about the job service (checked under SpecJobsRun).       *)
(***************************************************************************)
\* the last response was a GET /job/{job_id} of job j that reported status
ReportedStatus(j, status) ==
    /\ ret # <<>>
    /\ ret.code = 200
    /\ ret.job_id = j
    /\ ret.status = status

\* C30: the status reported by GET /job/{job_id} is stable once terminal,
\* whatever the interleaving of the runner thread with the requests: after a
\* request has reported done for a job, the next request for that job
\* reports neither error nor processing, and after error it does not report
\* done.
C30_TerminalStatusIsStable ==
    [][\A j \in JobIds :
          /\ (ReportedStatus(j, "done") /\ JobStatus(j))
                => ret'.status \notin {"error", "processing"}
          /\ (ReportedStatus(j, "error") /\ JobStatus(j))
                => ret'.status # "done"]_vars

=============================================================================
